---- MODULE Spec2Model ----
(***************************************************************************)
(* The VM lifecycle supervisor of the BOINC vboxwrapper (VBOX_VM in        *)
(* samples/vboxwrapper/vbox.cpp) as a state machine.                       *)
(*                                                                         *)
(* The supervisor is a single sequential caller: its position is a call    *)
(* stack of (procedure, label) frames.  Every VBoxManage command goes      *)
(* through vbm_popen, whose answers (return value of vbm_popen_raw and the *)
(* parts of the output text that the callers parse) are inputs drawn from  *)
(* small sets.                                                             *)
(*                                                                         *)
(*   Spec       the supervisor: any sequence of the public operations      *)
(*   SpecRetry  the retry loop of vbm_popen, one CLI invocation per step   *)
(***************************************************************************)
EXTENDS Integers, Sequences, FiniteSets, TLC

VARIABLES
    online,         \* VBOX_VM::online
    suspended,      \* VBOX_VM::suspended
    crashed,        \* VBOX_VM::crashed
    vm_name,        \* VBOX_VM::vm_name
    cfg,            \* the VM descriptor: register_only, enable_floppyio
    stack,          \* call stack of the supervisor, innermost frame last
    ret,            \* value returned by the procedure that returned last
    popen,          \* the vbm_popen call that completed last (Spec)
    cmds,           \* commands handed to vbm_popen since the operation began
    note,           \* what the step taken last observed
    vp,             \* the vbm_popen call in progress (SpecRetry)
    history,        \* the operation completed last, where a claimed sequence of calls goes on
    network_suspended,  \* VBOX_VM::network_suspended
    pf_host_port,   \* VBOX_VM::pf_host_port
    pFloppy,        \* VBOX_VM::pFloppy: "NULL", or a FloppyIO that is "ready" or "not ready"
    cableconnected, \* whether the cable of the VM's first network adapter is connected
    raw,            \* the vbm_popen_raw call in progress (SpecRaw)
    rd_host_port,   \* VBOX_VM::rd_host_port
    vm_pid,         \* VBOX_VM::vm_pid (vm_pid_handle on Windows)
    priority,       \* scheduling priority of the process that runs the VM
    configs         \* APP_CONFIGS of a project and the parse in progress (SpecAppConfig)

\* the members that belong to the devices of the VM
devices ==
    <<network_suspended, pf_host_port, pFloppy, cableconnected>>

vars ==
    <<online, suspended, crashed, vm_name, cfg, stack, ret, popen, cmds, note, vp, history,
      network_suspended, pf_host_port, pFloppy, cableconnected, raw, rd_host_port, vm_pid,
      priority, configs>>

(***************************************************************************)
(* Return codes.                                                           *)
(***************************************************************************)
BOINC_SUCCESS == 0
ERR_FWRITE == -105
ERR_FOPEN == -108
ERR_EXEC == -148
\* what boinc_socket returns when no socket can be made, and what a failed bind is turned into
ERR_SOCKET == -157
ERR_BIND == -180
\* 0x80bb0007 stored by sscanf("%x") into a 32-bit int
VBOX_E_INVALID_OBJECT_STATE == -2135228409

\* what vbm_popen_raw can return for a command that failed
FailCodes ==
    {VBOX_E_INVALID_OBJECT_STATE, ERR_FOPEN}

\* what vbm_popen_raw can return
RawResults ==
    {0} \cup FailCodes

(***************************************************************************)
(* vbm_popen: the retry loop.                                              *)
(***************************************************************************)
\* the retry_count at which vbm_popen gives up
MaxRetries == 5

\* the locals of vbm_popen on entry
vbm_popen_entry(log_error, retry_failures) ==
    [ log_error      |-> log_error,
      retry_failures |-> retry_failures,
      retval         |-> 0,
      retry_count    |-> 0,
      sleep_interval |-> 1,
      retry_notes    |-> FALSE,    \* retry_notes holds the "Another VirtualBox management ..." text
      ncalls         |-> 0,        \* invocations of vbm_popen_raw
      answers        |-> <<>>,     \* what vbm_popen_raw returned, in order
      slept          |-> <<>>,     \* arguments of boinc_sleep, in order
      notes_logged   |-> FALSE,    \* "Notes:" + retry_notes was appended to output
      done           |-> FALSE ]

\* vbm_popen_exit with the test of retry_notes inverted
vbm_popen_exit_inverted(f) ==
    [f EXCEPT !.done = TRUE,
              !.notes_logged = (f.retval # 0 /\ f.log_error /\ ~f.retry_notes)]

\* the code after the loop: notes are added to the output of a logged failure
vbm_popen_exit(f) ==
    [f EXCEPT !.done = TRUE,
              !.notes_logged = (f.retval # 0 /\ f.log_error /\ f.retry_notes)]

\* the lock branch doubling the interval at the first failure too
vbm_popen_locked_eager(f) ==
    IF f.retval = VBOX_E_INVALID_OBJECT_STATE
    THEN [f EXCEPT !.retry_notes = TRUE, !.sleep_interval = 2 * @]
    ELSE f

\* the lock branch: first occurrence records the note, later retries double the interval
vbm_popen_locked(f) ==
    IF f.retval = VBOX_E_INVALID_OBJECT_STATE
    THEN [f EXCEPT !.retry_notes = TRUE,
                   !.sleep_interval = IF f.retry_count # 0 THEN 2 * @ ELSE @]
    ELSE f

\* vbm_popen_giveup two retries early
vbm_popen_giveup_early(f) ==
    f.retry_count >= MaxRetries - 2

\* vbm_popen_giveup one retry late
vbm_popen_giveup_late(f) ==
    f.retry_count > MaxRetries

\* "Timeout?": no further retry
vbm_popen_giveup(f) ==
    f.retry_count >= MaxRetries

\* one pass through the do-while body, r being what vbm_popen_raw returns
vbm_popen_iter(f, r) ==
    LET f1 == [f EXCEPT !.retval = r, !.ncalls = @ + 1, !.answers = Append(@, r)]
        f2 == vbm_popen_locked(f1)
    IN  IF r = 0 THEN vbm_popen_exit(f1)
        ELSE IF ~f2.retry_failures THEN vbm_popen_exit(f2)
        ELSE IF vbm_popen_giveup(f2) THEN vbm_popen_exit(f2)
        ELSE [f2 EXCEPT !.retry_count = @ + 1,
                        !.slept = Append(@, f2.sleep_interval)]

\* the whole loop, the CLI failing with fails[1], fails[2], ... and succeeding afterwards
RECURSIVE vbm_popen_loop(_, _)
vbm_popen_loop(f, fails) ==
    IF f.done THEN f
    ELSE IF fails = <<>> THEN vbm_popen_loop(vbm_popen_iter(f, 0), <<>>)
    ELSE vbm_popen_loop(vbm_popen_iter(f, Head(fails)), Tail(fails))


\* how often the CLI fails in a row before it succeeds, at most
MaxFailures == 6

\* the failures the CLI answers a command with before it succeeds
Scripts ==
    UNION {[1..k -> FailCodes] : k \in 0..MaxFailures}

\* what a caller of vbm_popen gets to see: the return value (and the number of CLI invocations)
vbm_popen_result(f) ==
    [retval |-> f.retval, ncalls |-> f.ncalls]

\* vbm_popen as called with (log_error, retry_failures), for every behaviour of the CLI
vbm_popen ==
    [le \in BOOLEAN, rf \in BOOLEAN |->
        {vbm_popen_result(vbm_popen_loop(vbm_popen_entry(le, rf), fails)) : fails \in Scripts}]

\* the default arguments of vbm_popen: log_error = true, retry_failures = true
vbm_popen_default ==
    vbm_popen[TRUE, TRUE]

(***************************************************************************)
(* The VM descriptor and the names a command can be aimed at.              *)
(***************************************************************************)
\* text is a sequence of tokens; whatever the code searches for is one token
vm_master_name == <<"boinc_vm">>
StaleUUID == <<"000ab2be">>
NoName == <<>>

\* std::string::npos
npos == -1

\* s.find(tok, from): the first position (from 0) at or after from that holds tok
Find(s, tok, from) ==
    LET hits == {i \in from..(Len(s) - 1) : s[i + 1] = tok}
    IN  IF hits = {} THEN npos ELSE CHOOSE i \in hits : \A j \in hits : i <= j

\* s.substr(first, last - first), last = npos reaching to the end of s
Substr(s, first, last) ==
    IF last = npos THEN SubSeq(s, first + 1, Len(s)) ELSE SubSeq(s, first + 1, last)

\* s.find(tok) != npos
Contains(s, tok) ==
    Find(s, tok, 0) # npos

(***************************************************************************)
(* vbm_popen_raw: the return value, from the exit of the child and the     *)
(* output.  Hexadecimal digits are tokens of their own, so that the        *)
(* conversion of sscanf is computed.                                       *)
(***************************************************************************)
\* the value of a hexadecimal digit
HexDigit ==
    [c \in {"0", "1", "2", "3", "4", "5", "6", "7", "8", "9"} |->
        CASE c = "0" -> 0 [] c = "1" -> 1 [] c = "2" -> 2 [] c = "3" -> 3 [] c = "4" -> 4
          [] c = "5" -> 5 [] c = "6" -> 6 [] c = "7" -> 7 [] c = "8" -> 8 [] c = "9" -> 9]
    @@ [c \in {"a", "b", "c", "d", "e", "f"} |->
        CASE c = "a" -> 10 [] c = "b" -> 11 [] c = "c" -> 12 [] c = "d" -> 13
          [] c = "e" -> 14 [] c = "f" -> 15]
    @@ [c \in {"A", "B", "C", "D", "E", "F"} |->
        CASE c = "A" -> 10 [] c = "B" -> 11 [] c = "C" -> 12 [] c = "D" -> 13
          [] c = "E" -> 14 [] c = "F" -> 15]

\* the digits at the head of text, as an unsigned 32-bit number held in two 16-bit halves
RECURSIVE sscanf_digits(_, _)
sscanf_digits(text, acc) ==
    IF text = <<>> \/ Head(text) \notin DOMAIN HexDigit THEN acc
    ELSE sscanf_digits(Tail(text),
            [n  |-> acc.n + 1,
             hi |-> (acc.hi * 16 + (acc.lo \div 4096)) % 65536,
             lo |-> (acc.lo * 16 + HexDigit[Head(text)]) % 65536])

\* sscanf(errcode, "%x", &retval): the number stored in a 32-bit int, retval kept when the
\* text does not start with a digit
sscanf_x(text, retval) ==
    LET v == sscanf_digits(text, [n |-> 0, hi |-> 0, lo |-> 0])
    IN  IF v.n = 0 THEN retval
        ELSE IF v.hi >= 32768 THEN (v.hi - 65536) * 65536 + v.lo
        ELSE v.hi * 65536 + v.lo

\* "Determine the real error code by parsing the output": errcode_start is tested for zero,
\* not for npos, and npos + 1 is 0
vbm_popen_raw_errcode(output) ==
    LET errcode_start == Find(output, "(0x", 0)
    IN  IF errcode_start # 0
        THEN sscanf_x(Substr(output, errcode_start + 1, Find(output, ")", errcode_start + 1)), 0)
        ELSE 0

\* what vbm_popen_raw returns: on Windows the code parsed from the output of a child that
\* failed, ERR_FOPEN when that is 0; elsewhere ERR_FOPEN when popen fails and 0 otherwise
vbm_popen_raw_retval(platform, started, exit_code, output) ==
    IF platform = "_WIN32"
    THEN IF exit_code # 0 \/ ~started
         THEN IF vbm_popen_raw_errcode(output) = 0 THEN ERR_FOPEN
              ELSE vbm_popen_raw_errcode(output)
         ELSE 0
    ELSE IF ~started THEN ERR_FOPEN ELSE 0

\* the text of the lock error code and of E_FAIL, digit by digit
LockCode == <<"(0x", "8", "0", "b", "b", "0", "0", "0", "7", ")">>
FailCode == <<"(0x", "8", "0", "0", "0", "4", "0", "0", "5", ")">>

\* what VBoxManage prints, stdout and stderr together
RawOutputs ==
    { <<>>,
      <<"name=", "\n">>,
      <<"VBoxManage: error: ">> \o LockCode \o <<"\n">>,
      LockCode \o <<" VBoxManage: error: ", "\n">>,
      <<"VBoxManage: error: ">> \o FailCode \o <<" ">> \o LockCode \o <<"\n">>,
      <<"VBoxManage: error: ", "\n">>,
      <<"VBoxManage: error: ", "(", "details", ")", "\n">>,
      <<"D", "e", "leting snapshot", "\n">>,
      <<"0", "%...", "1", "0", "%...", "\n">>,
      <<"e", "rror: ">> \o LockCode \o <<"\n">> }

\* the platforms the code is built for
Platforms == {"_WIN32", "posix"}

\* a vbm_popen_raw call on entry
vbm_popen_raw_entry(platform) ==
    [platform |-> platform, pc |-> "entry", started |-> FALSE, exit_code |-> 0,
     output |-> <<>>, retval |-> 0]

\* no vbm_popen_raw call is looked at
NoRaw == [vbm_popen_raw_entry("_WIN32") EXCEPT !.pc = "none"]

(***************************************************************************)
(* app_config.xml (src/client/app_config.cpp).  A file is the sequence of  *)
(* the tags XML_PARSER::get_tag hands out, an element with a text (such as *)
(* <name>a</name>) being one tag that carries the text; get_tag reports    *)
(* the end of the file once the sequence is used up.                       *)
(***************************************************************************)
ERR_XML_PARSE == -112

\* a tag and the text of its element, "" when it has none
Str(t, s) == [tag |-> t, str |-> s]

\* XML_PARSER::parse_start: the first tag of the file is the one asked for
parse_start(file, start_tag) ==
    /\ file # <<>>
    /\ file[1].tag = start_tag

\* APP_CONFIG::parse from the tag at pos on, ac being the entry read so far
RECURSIVE APP_CONFIG_parse(_, _, _)
APP_CONFIG_parse(file, pos, ac) ==
    IF pos > Len(file)
    THEN [retval |-> ERR_XML_PARSE, pos |-> pos, entry |-> ac]
    ELSE IF file[pos].tag = "/app"
    THEN [retval |-> 0, pos |-> pos + 1, entry |-> ac]
    ELSE IF file[pos].tag = "name"
    THEN APP_CONFIG_parse(file, pos + 1, [ac EXCEPT !.name = file[pos].str])
    ELSE IF file[pos].tag = "max_concurrent"
    THEN APP_CONFIG_parse(file, pos + 1, [ac EXCEPT !.max_concurrent = file[pos].str])
    ELSE APP_CONFIG_parse(file, pos + 1, ac)

\* APP_VERSION_CONFIG::parse from the tag at pos on
RECURSIVE APP_VERSION_CONFIG_parse(_, _, _)
APP_VERSION_CONFIG_parse(file, pos, avc) ==
    IF pos > Len(file)
    THEN [retval |-> ERR_XML_PARSE, pos |-> pos, entry |-> avc]
    ELSE IF file[pos].tag = "/app_version"
    THEN [retval |-> 0, pos |-> pos + 1, entry |-> avc]
    ELSE IF file[pos].tag = "app_name"
    THEN APP_VERSION_CONFIG_parse(file, pos + 1, [avc EXCEPT !.app_name = file[pos].str])
    ELSE IF file[pos].tag = "cmdline"
    THEN APP_VERSION_CONFIG_parse(file, pos + 1, [avc EXCEPT !.cmdline = file[pos].str])
    ELSE APP_VERSION_CONFIG_parse(file, pos + 1, avc)

\* the loop of APP_CONFIGS::parse from the tag at pos on, c holding the two vectors
RECURSIVE APP_CONFIGS_parse_loop(_, _, _)
APP_CONFIGS_parse_loop(file, pos, c) ==
    IF pos > Len(file)
    THEN [c EXCEPT !.retval = ERR_XML_PARSE]
    ELSE IF file[pos].tag = "/app_config"
    THEN [c EXCEPT !.retval = 0]
    ELSE IF file[pos].tag = "app"
    THEN LET r == APP_CONFIG_parse(file, pos + 1, [name |-> "", max_concurrent |-> ""])
         IN  APP_CONFIGS_parse_loop(file, r.pos,
                 IF r.retval = 0
                 THEN [c EXCEPT !.app_configs = Append(@, r.entry)]
                 ELSE c)
    ELSE IF file[pos].tag = "app_version"
    THEN LET r == APP_VERSION_CONFIG_parse(file, pos + 1, [app_name |-> "", cmdline |-> ""])
         IN  APP_CONFIGS_parse_loop(file, r.pos,
                 IF r.retval = 0
                 THEN [c EXCEPT !.app_version_configs = Append(@, r.entry)]
                 ELSE c)
    ELSE APP_CONFIGS_parse_loop(file, pos + 1, c)

\* APP_CONFIGS::parse of a file into the object c: app_configs.clear() first
APP_CONFIGS_parse(c, file) ==
    LET cleared == [c EXCEPT !.app_configs = <<>>]
    IN  IF ~parse_start(file, "app_config")
        THEN [cleared EXCEPT !.retval = ERR_XML_PARSE]
        ELSE APP_CONFIGS_parse_loop(file, 2, cleared)

\* the APP_CONFIGS of a project after construction, no file parsed
NoConfigs ==
    [app_configs |-> <<>>, app_version_configs |-> <<>>, retval |-> 0,
     file |-> <<>>, nparse |-> 0]

\* the files: well formed with up to two <app> and <app_version> entries, cut short, with a
\* tag the parser does not know, with a wrong root, empty
ConfigFiles ==
    LET Tag(t) == Str(t, "")
        AppBlock(n) == <<Tag("app"), Str("name", n), Str("max_concurrent", "1"), Tag("/app")>>
        VersionBlock(n) == <<Tag("app_version"), Str("app_name", n),
                             Str("cmdline", "--nthreads 2"), Tag("/app_version")>>
        Blocks == {AppBlock("a"), AppBlock("b"), VersionBlock("a"), VersionBlock("b")}
        Bodies == {<<>>} \cup Blocks \cup {x \o y : x \in Blocks, y \in Blocks}
    IN  {<<Tag("app_config")>> \o b \o <<Tag("/app_config")>> : b \in Bodies}
        \cup {<<Tag("app_config")>> \o b : b \in Blocks}
        \cup { <<Tag("app_config"), Tag("app"), Str("name", "a")>>,
               <<Tag("app_config"), Tag("report_results_immediately"), Tag("/app_config")>>,
               <<Tag("app_configs"), Tag("/app_configs")>>,
               <<>> }

\* number of times one project's app_config.xml is read
MaxParses == 2

\* check_app_config reads the file of the project (at startup and on each read_cc_config)
check_app_config ==
    /\ configs.nparse < MaxParses
    /\ \E file \in ConfigFiles :
            configs' = [APP_CONFIGS_parse(configs, file) EXCEPT
                            !.file = file, !.nparse = configs.nparse + 1]
    /\ UNCHANGED <<online, suspended, crashed, vm_name, cfg, stack, ret, popen, cmds, note, vp,
                   history, devices, raw, rd_host_port, vm_pid, priority>>

\* the descriptors: the fields not listed keep the value the constructor gives them
\* (no network, no remote desktop, no shared directory)
Descriptors ==
    { [register_only |-> FALSE, enable_floppyio |-> FALSE,
       os_name |-> <<"Linux26", "_64">>, vm_cpu_count |-> "1",
       enable_network |-> FALSE, pf_guest_port |-> 0, image_filename |-> <<"vm.vdi">>,
       enable_remotedesktop |-> FALSE, enable_shared_directory |-> FALSE],
      [register_only |-> TRUE, enable_floppyio |-> FALSE,
       os_name |-> <<"Linux26">>, vm_cpu_count |-> "1",
       enable_network |-> FALSE, pf_guest_port |-> 0, image_filename |-> <<"vm.vdi">>,
       enable_remotedesktop |-> FALSE, enable_shared_directory |-> FALSE],
      [register_only |-> FALSE, enable_floppyio |-> TRUE,
       os_name |-> <<"Linux26">>, vm_cpu_count |-> "2",
       enable_network |-> FALSE, pf_guest_port |-> 0, image_filename |-> <<"vm.vdi">>,
       enable_remotedesktop |-> FALSE, enable_shared_directory |-> FALSE] }

\* the port of the guest that is forwarded, and the host port a descriptor can ask for
GuestPort == 80
ConfiguredPort == 8080

\* the ports the system hands out when asked to bind port 0
EphemeralPorts == {49152, 49153}

\* descriptors of VMs with network access, port forwarding, a floppy, no image name, a remote
\* desktop, a shared directory
DeviceDescriptors ==
    { [register_only |-> FALSE, enable_floppyio |-> FALSE,
       os_name |-> <<"Linux26", "_64">>, vm_cpu_count |-> "1",
       enable_network |-> TRUE, pf_guest_port |-> GuestPort, image_filename |-> <<"vm.vdi">>,
       enable_remotedesktop |-> TRUE, enable_shared_directory |-> TRUE],
      [register_only |-> FALSE, enable_floppyio |-> TRUE,
       os_name |-> <<"Linux26", "_64">>, vm_cpu_count |-> "1",
       enable_network |-> TRUE, pf_guest_port |-> 0, image_filename |-> <<"vm.vdi">>,
       enable_remotedesktop |-> FALSE, enable_shared_directory |-> TRUE],
      [register_only |-> FALSE, enable_floppyio |-> FALSE,
       os_name |-> <<"Linux26", "_64">>, vm_cpu_count |-> "1",
       enable_network |-> FALSE, pf_guest_port |-> 0, image_filename |-> <<>>,
       enable_remotedesktop |-> FALSE, enable_shared_directory |-> FALSE] }

\* aid.host_info.p_features as the client reports it
HostFeatures ==
    { <<"fpu">>, <<"fpu", "vmx">>, <<"fpu", "svm">>, <<"fpu", "hypervisor">>,
      <<"fpu", "vmx", "hypervisor">>, <<"fpu", "svm", "hypervisor">> }

\* aid.major_version, aid.minor_version, aid.release of the client
ClientVersions ==
    { <<6, 12, 34>>, <<7, 1, 20>>, <<7, 2, 15>>, <<7, 2, 16>>, <<7, 2, 17>>, <<7, 3, 0>>,
      <<8, 0, 0>> }

\* what boinc_get_init_data_p hands to register_vm
AppInitData ==
    [ p_features : HostFeatures,
      version : ClientVersions,
      vm_extensions_disabled : BOOLEAN ]

\* is_client_version_newer that takes the same release for newer
is_client_version_newer_or_same(aid, maj, min, rel) ==
    IF maj < aid.version[1] THEN TRUE
    ELSE IF maj > aid.version[1] THEN FALSE
    ELSE IF min < aid.version[2] THEN TRUE
    ELSE IF min > aid.version[2] THEN FALSE
    ELSE rel <= aid.version[3]

\* true when the version of the client is past maj.min.rel
is_client_version_newer(aid, maj, min, rel) ==
    IF maj < aid.version[1] THEN TRUE
    ELSE IF maj > aid.version[1] THEN FALSE
    ELSE IF min < aid.version[2] THEN TRUE
    ELSE IF min > aid.version[2] THEN FALSE
    ELSE IF rel < aid.version[3] THEN TRUE
    ELSE FALSE

\* a command as handed to vbm_popen: subcommand, the VM it names, the option that varies (as text)
Cmd(c, vm, opt) ==
    [cmd |-> c, vm |-> vm, opt |-> opt]

NoNote == [op |-> "none"]
NoPopen == [retval |-> 0, ncalls |-> 0]

(***************************************************************************)
(* The call stack.                                                         *)
(***************************************************************************)
Top == stack[Len(stack)]
At(p, l) == stack # <<>> /\ Top.proc = p /\ Top.pc = l
Caller == SubSeq(stack, 1, Len(stack) - 1)

\* return v to the caller
Return(v) ==
    /\ stack' = Caller
    /\ ret' = v

\* replace the running frame by f and call the procedure whose entry frame is g
Call(f, g) ==
    stack' = Append(Append(Caller, f), g)

\* the running frame moved to label l
Label(l) == [Top EXCEPT !.pc = l]

Frame(p) == [proc |-> p, pc |-> "entry"]

(***************************************************************************)
(* poll                                                                    *)
(***************************************************************************)
\* the VMState tokens VBoxManage prints; "poweroff" stands for every token poll does not name
Tokens ==
    {"running", "paused", "starting", "stopping", "saving", "restoring",
     "livesnapshotting", "deletingsnapshotlive", "deletingsnapshotlivepaused",
     "aborted", "gurumeditation", "poweroff"}

\* poll_flags with the gurumeditation branch leaving the VM online
poll_flags_guru_online(vmstate) ==
    IF vmstate \in {"running", "starting", "stopping", "saving", "restoring",
                    "livesnapshotting", "deletingsnapshotlive", "deletingsnapshotlivepaused"}
    THEN <<TRUE, FALSE, FALSE>>
    ELSE IF vmstate = "paused" THEN <<TRUE, TRUE, FALSE>>
    ELSE IF vmstate = "aborted" THEN <<FALSE, FALSE, TRUE>>
    ELSE IF vmstate = "gurumeditation" THEN <<TRUE, FALSE, TRUE>>
    ELSE <<FALSE, FALSE, FALSE>>

\* the if-chain of poll: <<online, suspended, crashed>> for a token
poll_flags(vmstate) ==
    IF vmstate = "running" THEN <<TRUE, FALSE, FALSE>>
    ELSE IF vmstate = "paused" THEN <<TRUE, TRUE, FALSE>>
    ELSE IF vmstate = "starting" THEN <<TRUE, FALSE, FALSE>>
    ELSE IF vmstate = "stopping" THEN <<TRUE, FALSE, FALSE>>
    ELSE IF vmstate = "saving" THEN <<TRUE, FALSE, FALSE>>
    ELSE IF vmstate = "restoring" THEN <<TRUE, FALSE, FALSE>>
    ELSE IF vmstate = "livesnapshotting" THEN <<TRUE, FALSE, FALSE>>
    ELSE IF vmstate = "deletingsnapshotlive" THEN <<TRUE, FALSE, FALSE>>
    ELSE IF vmstate = "deletingsnapshotlivepaused" THEN <<TRUE, FALSE, FALSE>>
    ELSE IF vmstate = "aborted" THEN <<FALSE, FALSE, TRUE>>
    ELSE IF vmstate = "gurumeditation" THEN <<FALSE, FALSE, TRUE>>
    ELSE <<FALSE, FALSE, FALSE>>

\* what showvminfo --machinereadable prints: with a VMState="..." line or without
VmInfoOutputs ==
    {<<"name=", "\n">>} \cup {<<"name=", "\n", "VMState=\"", t, "\"", "\n">> : t \in Tokens}

\* the token between VMState=" and the next quote, <<>> when there is no VMState="
poll_vmstate(output) ==
    LET vmstate_start == Find(output, "VMState=\"", 0)
    IN  IF vmstate_start = npos THEN <<>>
        ELSE Substr(output, vmstate_start + 1, Find(output, "\"", vmstate_start + 1))

\* poll_unread with the flags cleared
poll_unread_cleared ==
    <<FALSE, FALSE, FALSE>>

\* online, suspended, crashed after a poll that read no VMState: the assignments are inside
\* the two tests, the flags stay
poll_unread ==
    <<online, suspended, crashed>>

\* showvminfo --machinereadable, then the flags follow the token
poll ==
    /\ At("poll", "entry")
    /\ \E r \in vbm_popen[FALSE, FALSE], output \in VmInfoOutputs :
        /\ popen' = r
        /\ IF r.retval = 0 /\ Find(output, "VMState=\"", 0) # npos
           THEN LET vmstate == poll_vmstate(output)[1]
                IN  /\ online' = poll_flags(vmstate)[1]
                    /\ suspended' = poll_flags(vmstate)[2]
                    /\ crashed' = poll_flags(vmstate)[3]
                    /\ note' = [op |-> "poll", parsed |-> TRUE, vmstate |-> vmstate]
           ELSE /\ online' = poll_unread[1]
                /\ suspended' = poll_unread[2]
                /\ crashed' = poll_unread[3]
                /\ note' = [op |-> "poll", parsed |-> FALSE, vmstate |-> ""]
    /\ cmds' = Append(cmds, Cmd("showvminfo --machinereadable", vm_name, <<>>))
    /\ Return(0)
    /\ UNCHANGED <<vm_name, cfg, vp, history, devices, raw, rd_host_port, vm_pid, priority, configs>>

(***************************************************************************)
(* pause, resume                                                           *)
(***************************************************************************)
\* reset_vm_process_priority without the test of vm_pid
reset_vm_process_priority_unchecked ==
    "normal"

\* reset_vm_process_priority: if (vm_pid) setpriority(..., PROCESS_MEDIUM_PRIORITY), on Windows
\* if (vm_pid_handle) SetPriorityClass(..., NORMAL_PRIORITY_CLASS)
reset_vm_process_priority ==
    IF vm_pid # 0 THEN "normal" ELSE priority

\* lower_vm_process_priority: if (vm_pid) setpriority(..., PROCESS_IDLE_PRIORITY), on Windows
\* if (vm_pid_handle) SetPriorityClass(..., IDLE_PRIORITY_CLASS)
lower_vm_process_priority ==
    IF vm_pid # 0 THEN "idle" ELSE priority

\* pause_suspended set whatever the command returned
pause_suspended_always(retval) ==
    TRUE

\* suspended after controlvm pause returned retval
pause_suspended(retval) ==
    IF retval # 0 THEN suspended ELSE TRUE

\* reset_vm_process_priority first
pause ==
    /\ At("pause", "entry")
    /\ priority' = reset_vm_process_priority
    /\ stack' = Append(Caller, Label("command"))
    /\ note' = NoNote
    /\ UNCHANGED <<online, suspended, crashed, vm_name, cfg, ret, popen, cmds, vp, history,
                   devices, raw, rd_host_port, vm_pid, configs>>

\* controlvm pause; suspended is set when it succeeded
pause_command ==
    /\ At("pause", "command")
    /\ \E r \in vbm_popen_default :
        /\ popen' = r
        /\ suspended' = pause_suspended(r.retval)
        /\ Return(r.retval)
    /\ cmds' = Append(cmds, Cmd("controlvm pause", vm_name, <<>>))
    /\ note' = [op |-> "pause"]
    /\ UNCHANGED <<online, crashed, vm_name, cfg, vp, history, devices, raw, rd_host_port, vm_pid, priority, configs>>

\* lower_vm_process_priority first
resume ==
    /\ At("resume", "entry")
    /\ priority' = lower_vm_process_priority
    /\ stack' = Append(Caller, Label("command"))
    /\ note' = NoNote
    /\ UNCHANGED <<online, suspended, crashed, vm_name, cfg, ret, popen, cmds, vp, history,
                   devices, raw, rd_host_port, vm_pid, configs>>

\* controlvm resume; suspended is cleared when it succeeded
resume_command ==
    /\ At("resume", "command")
    /\ \E r \in vbm_popen_default :
        /\ popen' = r
        /\ suspended' = IF r.retval # 0 THEN suspended ELSE FALSE
        /\ Return(r.retval)
    /\ cmds' = Append(cmds, Cmd("controlvm resume", vm_name, <<>>))
    /\ note' = [op |-> "resume"]
    /\ UNCHANGED <<online, crashed, vm_name, cfg, vp, history, devices, raw, rd_host_port, vm_pid, priority, configs>>

(***************************************************************************)
(* stop, poweroff                                                          *)
(***************************************************************************)
\* the body both share: nothing when offline, else the controlvm command and one poll
halt(p, how) ==
    /\ At(p, "entry")
    /\ IF online
       THEN \E r \in vbm_popen[TRUE, FALSE] :
            /\ popen' = r
            /\ cmds' = Append(cmds, Cmd(how, vm_name, <<>>))
            /\ Call([Label("polled") EXCEPT !.was_online = TRUE, !.ctl = r], Frame("poll"))
            /\ note' = NoNote
            /\ UNCHANGED ret
       ELSE /\ Return(0)
            /\ note' = [op |-> p, was_online |-> FALSE, retval |-> 0,
                        issued |-> SubSeq(cmds, Top.base + 1, Len(cmds)),
                        ctl |-> NoPopen, polls |-> NoPopen]
            /\ UNCHANGED <<popen, cmds>>
    /\ UNCHANGED <<online, suspended, crashed, vm_name, cfg, vp, history, devices, raw, rd_host_port, vm_pid, priority, configs>>

\* halted handing back what the controlvm command returned when it failed
halted_ctl(p) ==
    /\ At(p, "polled")
    /\ LET retval == IF Top.ctl.retval # 0 THEN Top.ctl.retval
                     ELSE IF ~online THEN BOINC_SUCCESS ELSE ERR_EXEC
       IN  /\ Return(retval)
           /\ note' = [op |-> p, was_online |-> TRUE, retval |-> retval,
                       issued |-> SubSeq(cmds, Top.base + 1, Len(cmds)),
                       ctl |-> Top.ctl, polls |-> popen]
    /\ UNCHANGED <<online, suspended, crashed, vm_name, cfg, popen, cmds, vp, history, devices, raw, rd_host_port, vm_pid, priority, configs>>

\* after the poll: success iff the VM is no longer online
halted(p) ==
    /\ At(p, "polled")
    /\ LET retval == IF ~online THEN BOINC_SUCCESS ELSE ERR_EXEC
       IN  /\ Return(retval)
           /\ note' = [op |-> p, was_online |-> TRUE, retval |-> retval,
                       issued |-> SubSeq(cmds, Top.base + 1, Len(cmds)),
                       ctl |-> Top.ctl, polls |-> popen]
    /\ UNCHANGED <<online, suspended, crashed, vm_name, cfg, popen, cmds, vp, history, devices, raw, rd_host_port, vm_pid, priority, configs>>

stop == halt("stop", "controlvm savestate")
stop_polled == halted("stop")
poweroff == halt("poweroff", "controlvm poweroff")
poweroff_polled == halted("poweroff")

\* the entry frame of stop and poweroff; base is the length of the command log on entry
HaltFrame(p, base) ==
    [proc |-> p, pc |-> "entry", base |-> base, was_online |-> FALSE, ctl |-> NoPopen]

(***************************************************************************)
(* start                                                                   *)
(***************************************************************************)
\* seconds start waits for the VM to come online
StartBudget == 300

\* seconds the showvminfo of one pass of the wait loop takes
PollSeconds == 29

\* startvm, then timeout = dtime() + 300 and the first poll of the loop
start ==
    /\ At("start", "entry")
    /\ \E r \in vbm_popen_default :
        /\ popen' = r
        /\ IF r.retval # 0
           THEN /\ Return(r.retval)
                /\ note' = [op |-> "start", retval |-> r.retval, polled |-> FALSE, waited |-> 0,
                            issued |-> Append(SubSeq(cmds, Top.base + 1, Len(cmds)),
                                              Cmd("startvm", vm_name, <<"--type headless">>))]
           ELSE /\ Call([Label("polled") EXCEPT !.waited = 0], Frame("poll"))
                /\ note' = NoNote
                /\ UNCHANGED ret
    /\ cmds' = Append(cmds, Cmd("startvm", vm_name, <<"--type headless">>))
    /\ UNCHANGED <<online, suspended, crashed, vm_name, cfg, vp, history, devices, raw, rd_host_port, vm_pid, priority, configs>>

\* start_again with > for >=
start_again_strict(waited) ==
    StartBudget > waited

\* while (timeout >= dtime())
start_again(waited) ==
    StartBudget >= waited

\* the rest of a loop pass: break when online, else sleep a second and test the deadline
start_polled ==
    /\ At("start", "polled")
    /\ LET d == PollSeconds
           waited == Top.waited + d + 1
            retval == IF online THEN BOINC_SUCCESS ELSE ERR_EXEC
       IN  IF ~online /\ start_again(waited)
           THEN /\ Call([Top EXCEPT !.waited = waited], Frame("poll"))
                /\ note' = NoNote
                /\ UNCHANGED ret
           ELSE /\ Return(retval)
                /\ note' = [op |-> "start", retval |-> retval, polled |-> TRUE,
                            waited |-> IF online THEN Top.waited + d ELSE waited,
                            issued |-> SubSeq(cmds, Top.base + 1, Len(cmds))]
    /\ UNCHANGED <<online, suspended, crashed, vm_name, cfg, popen, cmds, vp, history, devices, raw, rd_host_port, vm_pid, priority, configs>>

\* the entry frame of start
StartFrame(base) ==
    [proc |-> "start", pc |-> "entry", base |-> base, waited |-> 0]

(***************************************************************************)
(* restoresnapshot                                                         *)
(***************************************************************************)
restoresnapshot ==
    /\ At("restoresnapshot", "entry")
    /\ \E r \in vbm_popen_default :
        /\ popen' = r
        /\ Return(r.retval)
    /\ cmds' = Append(cmds, Cmd("snapshot restorecurrent", vm_name, <<>>))
    /\ note' = [op |-> "restoresnapshot"]
    /\ UNCHANGED <<online, suspended, crashed, vm_name, cfg, vp, history, devices, raw, rd_host_port, vm_pid, priority, configs>>

(***************************************************************************)
(* cleanupsnapshots                                                        *)
(***************************************************************************)
\* snapshots a VM has, at most
MaxSnapshots == 3

SnapshotIds == <<"s1", "s2", "s3", "s4">>

\* a line of `snapshot list`
SnapshotLine(i, active) ==
    <<"Name:", "(UUID: ", SnapshotIds[i], ")">> \o (IF active THEN <<"*">> ELSE <<>>) \o <<"\n">>

RECURSIVE SnapshotLines(_, _)
SnapshotLines(n, active) ==
    IF n = 0 THEN <<>> ELSE SnapshotLines(n - 1, active) \o SnapshotLine(n, n = active)

\* what `snapshot list` prints for a VM without snapshots
NoSnapshots == <<"This VM ", "does not have any snapshots", "\n">>

\* what `snapshot list` prints: no snapshots, or n of them of which one is the current one
SnapshotListings ==
    {NoSnapshots}
        \cup {SnapshotLines(n, a) : n \in 1..MaxSnapshots, a \in 1..MaxSnapshots}

\* what `snapshot delete` prints: nothing, a short line, a progress line longer than a listing line
DeleteOutputs ==
    {<<>>, <<"error", "\n">>, <<"0%", "10%", "20%", "30%", "40%", "50%", "100%", "\n">>}

\* enumerate the snapshots; listing keeps what was printed, for the record
cleanupsnapshots ==
    /\ At("cleanupsnapshots", "entry")
    /\ \E r \in vbm_popen_default, output \in SnapshotListings :
        /\ popen' = r
        /\ IF r.retval # 0
           THEN Return(r.retval)
           ELSE /\ stack' = Append(Caller, [Label("line") EXCEPT
                                !.output = output,
                                !.listing = output,
                                !.eol_prev_pos = 0,
                                !.eol_pos = Find(output, "\n", 0)])
                /\ UNCHANGED ret
    /\ cmds' = Append(cmds, Cmd("snapshot list", vm_name, <<>>))
    /\ note' = NoNote
    /\ UNCHANGED <<online, suspended, crashed, vm_name, cfg, vp, history, devices, raw, rd_host_port, vm_pid, priority, configs>>

\* cleanupsnapshots_break without the test for the active snapshot
cleanupsnapshots_break_any(delete_active, line) ==
    Contains(line, "does not have any snapshots")

\* cleanupsnapshots_break without the test for a VM that has no snapshots
cleanupsnapshots_break_listed(delete_active, line) ==
    ~delete_active /\ Contains(line, "*")

\* the two breaks of the loop: the VM has no snapshots; the line is that of the active snapshot
cleanupsnapshots_break(delete_active, line) ==
    \/ Contains(line, "does not have any snapshots")
    \/ (~delete_active /\ Contains(line, "*"))

\* one pass of the while loop over the lines of output; the delete command writes its own
\* output into the string the loop is reading
cleanupsnapshots_line ==
    /\ At("cleanupsnapshots", "line")
    /\ LET f == Top
           line == Substr(f.output, f.eol_prev_pos, f.eol_pos)
           uuid_start == Find(line, "(UUID: ", 0)
           uuid == Substr(line, uuid_start + 1, Find(line, ")", uuid_start + 1))
       IN  IF f.eol_pos = npos \/ cleanupsnapshots_break(f.delete_active, line)
           THEN /\ Return(0)
                /\ note' = [op |-> "cleanupsnapshots", delete_active |-> f.delete_active,
                            listing |-> f.listing,
                            stop |-> IF f.eol_pos = npos THEN "end" ELSE "break"]
                /\ UNCHANGED <<popen, cmds>>
           ELSE IF uuid_start # npos
           THEN \E r \in vbm_popen[TRUE, FALSE], output \in DeleteOutputs :
                /\ popen' = r
                /\ cmds' = Append(cmds, Cmd("snapshot delete", vm_name, uuid))
                /\ stack' = Append(Caller, [f EXCEPT
                                !.output = output,
                                !.eol_prev_pos = f.eol_pos + 1,
                                !.eol_pos = Find(output, "\n", f.eol_pos + 1)])
                /\ note' = NoNote
                /\ UNCHANGED ret
           ELSE /\ stack' = Append(Caller, [f EXCEPT
                                !.eol_prev_pos = f.eol_pos + 1,
                                !.eol_pos = Find(f.output, "\n", f.eol_pos + 1)])
                /\ note' = NoNote
                /\ UNCHANGED <<ret, popen, cmds>>
    /\ UNCHANGED <<online, suspended, crashed, vm_name, cfg, vp, history, devices, raw, rd_host_port, vm_pid, priority, configs>>

\* the entry frame of cleanupsnapshots
CleanupFrame(delete_active) ==
    [proc |-> "cleanupsnapshots", pc |-> "entry", delete_active |-> delete_active,
     output |-> <<>>, listing |-> <<>>, eol_prev_pos |-> 0, eol_pos |-> 0]

(***************************************************************************)
(* is_registered, is_hdd_registered                                        *)
(***************************************************************************)
\* what showvminfo prints for the master name
RegistrationOutputs ==
    {<<"name=", "\n">>, <<"VBOX_E_OBJECT_NOT_FOUND", "\n">>}

is_registered ==
    /\ At("is_registered", "entry")
    /\ \E r \in vbm_popen[FALSE, FALSE], output \in RegistrationOutputs :
        /\ popen' = r
        /\ Return(IF r.retval = 0 /\ ~Contains(output, "VBOX_E_OBJECT_NOT_FOUND") THEN 1 ELSE 0)
    /\ cmds' = Append(cmds, Cmd("showvminfo --machinereadable", vm_master_name, <<>>))
    /\ note' = NoNote
    /\ UNCHANGED <<online, suspended, crashed, vm_name, cfg, vp, history, devices, raw, rd_host_port, vm_pid, priority, configs>>

\* what showhdinfo prints for the disk image: the disk with or without an owning VM, or an error
HdInfoOutputs ==
    { <<"UUID:", "c119acaf", "\n", "In use by VMs:", "(UUID: ", StaleUUID[1], ")", "\n">>,
      <<"UUID:", "c119acaf", "\n">>,
      <<"VBOX_E_FILE_ERROR", "\n">>,
      <<"VBOX_E_OBJECT_NOT_FOUND", "\n">>,
      <<"does not match the value", "\n">> }

is_hdd_registered ==
    /\ At("is_hdd_registered", "entry")
    /\ \E r \in vbm_popen[FALSE, FALSE], output \in HdInfoOutputs :
        /\ popen' = r
        /\ Return(IF /\ r.retval = 0
                     /\ ~Contains(output, "VBOX_E_FILE_ERROR")
                     /\ ~Contains(output, "VBOX_E_OBJECT_NOT_FOUND")
                     /\ ~Contains(output, "does not match the value")
                  THEN 1 ELSE 0)
    /\ cmds' = Append(cmds, Cmd("showhdinfo", NoName, <<>>))
    /\ note' = NoNote
    /\ UNCHANGED <<online, suspended, crashed, vm_name, cfg, vp, history, devices, raw, rd_host_port, vm_pid, priority, configs>>

(***************************************************************************)
(* deregister_vm, deregister_stale_vm                                      *)
(***************************************************************************)
\* the commands deregister_vm issues after the snapshots are gone, in order
deregister_vm_commands(delete_media) ==
    LET media == IF delete_media THEN <<"--delete">> ELSE <<>>
    IN  <<Cmd("storagectl --remove", vm_name, <<"IDE Controller">>)>>
        \o (IF cfg.enable_floppyio
            THEN <<Cmd("storagectl --remove", vm_name, <<"Floppy Controller">>)>> ELSE <<>>)
        \o <<Cmd("unregistervm", vm_name, <<"--delete">>)>>
        \o <<Cmd("closemedium disk", NoName, media)>>
        \o (IF cfg.enable_floppyio THEN <<Cmd("closemedium floppy", NoName, media)>> ELSE <<>>)

\* cleanupsnapshots(true) first
deregister_vm ==
    /\ At("deregister_vm", "entry")
    /\ Call(Label("remove"), CleanupFrame(TRUE))
    /\ note' = NoNote
    /\ UNCHANGED <<online, suspended, crashed, vm_name, cfg, ret, popen, cmds, vp, history, devices, raw, rd_host_port, vm_pid, priority, configs>>

\* storage controllers, the VM, the media: every result is ignored
deregister_vm_remove ==
    /\ At("deregister_vm", "remove")
    /\ \E r \in vbm_popen[FALSE, FALSE] : popen' = r
    /\ cmds' = cmds \o deregister_vm_commands(Top.delete_media)
    /\ Return(0)
    /\ note' = [op |-> "deregister_vm", delete_media |-> Top.delete_media]
    /\ UNCHANGED <<online, suspended, crashed, vm_name, cfg, vp, history, devices, raw, rd_host_port, vm_pid, priority, configs>>

\* the entry frame of deregister_vm
DeregisterFrame(delete_media) ==
    [proc |-> "deregister_vm", pc |-> "entry", delete_media |-> delete_media]

\* showhdinfo names the VM that owns the disk: deregister it by UUID, else close the media
deregister_stale_vm ==
    /\ At("deregister_stale_vm", "entry")
    /\ \E r \in vbm_popen_default, output \in HdInfoOutputs :
        LET uuid_start == Find(output, "(UUID: ", 0)
            uuid == Substr(output, uuid_start + 1, Find(output, ")", uuid_start + 1))
            showhd == Cmd("showhdinfo", NoName, <<>>)
        IN  IF r.retval # 0
            THEN /\ popen' = r
                 /\ cmds' = Append(cmds, showhd)
                 /\ Return(r.retval)
                 /\ note' = NoNote
                 /\ UNCHANGED vm_name
            ELSE IF uuid_start # npos
            THEN /\ popen' = r
                 /\ cmds' = Append(cmds, showhd)
                 /\ vm_name' = uuid
                 /\ Call(Label("ret"), DeregisterFrame(FALSE))
                 /\ note' = [op |-> "deregister_stale_vm", uuid |-> uuid]
                 /\ UNCHANGED ret
            ELSE \E c \in vbm_popen[FALSE, TRUE] :
                 /\ popen' = c
                 /\ cmds' = cmds \o <<showhd, Cmd("closemedium disk", NoName, <<>>)>>
                        \o (IF cfg.enable_floppyio
                            THEN <<Cmd("closemedium floppy", NoName, <<>>)>> ELSE <<>>)
                 /\ Return(0)
                 /\ note' = [op |-> "deregister_stale_vm", uuid |-> <<>>]
                 /\ UNCHANGED vm_name
    /\ UNCHANGED <<online, suspended, crashed, cfg, vp, history, devices, raw, rd_host_port, vm_pid, priority, configs>>

\* return deregister_vm(false)
deregister_stale_vm_ret ==
    /\ At("deregister_stale_vm", "ret")
    /\ Return(ret)
    /\ note' = NoNote
    /\ UNCHANGED <<online, suspended, crashed, vm_name, cfg, popen, cmds, vp, history, devices, raw, rd_host_port, vm_pid, priority, configs>>

(***************************************************************************)
(* register_vm                                                             *)
(***************************************************************************)
\* Must with the result ignored
Must_ignored(c, opt) == [cmd |-> c, opt |-> opt, mandatory |-> FALSE]

\* a step of register_vm whose failure ends the registration
Must(c, opt) == [cmd |-> c, opt |-> opt, mandatory |-> TRUE]
\* a step of register_vm whose result is ignored
May(c, opt) == [cmd |-> c, opt |-> opt, mandatory |-> FALSE]

\* if (enable_network) with the test left out
register_vm_network_always(d) ==
    TRUE

\* if (enable_network): the network block of register_vm is entered
register_vm_network(d) ==
    d.enable_network

\* what list extpacks prints
ExtpackOutputs ==
    { <<"Extension Packs: 0", "\n">>,
      <<"Extension Packs: 1", "\n", "Pack no. 0:   ", "Oracle VM VirtualBox Extension Pack", "\n",
        "VRDE Module:  ", "VBoxVRDP", "\n">>,
      <<"Extension Packs: 1", "\n", "Pack no. 0:   ", "Oracle VM VirtualBox Extension Pack", "\n",
        "VRDE Module:  ", "\n">>,
      <<"Extension Packs: 1", "\n", "Pack no. 0:   ", "VNC", "\n",
        "VRDE Module:  ", "VBoxVNC", "\n">> }

\* is_extpack_installed: the command succeeded and its output names the pack and its module
is_extpack_installed(retval, output) ==
    /\ retval = 0
    /\ Find(output, "Oracle VM VirtualBox Extension Pack", 0) # npos
    /\ Find(output, "VBoxVRDP", 0) # npos

\* the port the system chooses for the remote desktop
RemoteDesktopPort == 49154

\* the argument of --vrde on
vrde(host_port) ==
    <<"--vrde on", "--vrdeextpack default", "--vrdeauthlibrary default", "--vrdeauthtype null",
      "--vrdeport", ToString(host_port)>>

\* the steps of register_vm for a descriptor, in the order of the code
register_vm_steps(d) ==
    << Must("createvm", "--register"),
       May("modifyvm", "--description"),
       Must("modifyvm", "--cpus"),
       Must("modifyvm", "--memory"),
       Must("modifyvm", "--acpi on --ioapic on"),
       Must("modifyvm", "--boot1 disk"),
       Must("modifyvm", "--nic1 nat --cableconnected1 off"),
       May("modifyvm", "--usb off"),
       May("modifyvm", "--uart1 off"),
       May("modifyvm", "--lpt1 off"),
       May("modifyvm", "--audio none"),
       May("modifyvm", "--clipboard disabled"),
       May("modifyvm", "--draganddrop disabled"),
       Must("disable_acceleration", ""),
       Must("modifyvm", "--hwvirtex off"),
       Must("storagectl --add", "Hard Disk Controller") >>
    \o (IF d.enable_floppyio THEN <<Must("storagectl --add", "Floppy Controller")>> ELSE <<>>)
    \o <<Must("storageattach", "Hard Disk Controller")>>
    \o (IF d.enable_floppyio
        THEN <<Must("FloppyIO", ""), Must("storageattach", "Floppy Controller")>> ELSE <<>>)
    \o (IF register_vm_network(d) THEN <<May("set_network_access", "")>> ELSE <<>>)
    \o (IF register_vm_network(d) /\ d.pf_guest_port # 0
        THEN <<Must("get_port_forwarding_port", ""), Must("modifyvm", "--natpf1")>> ELSE <<>>)
    \o (IF d.enable_remotedesktop
        THEN <<May("is_extpack_installed", ""), Must("get_remote_desktop_port", ""),
               Must("modifyvm", "--vrde on")>>
        ELSE <<>>)
    \o (IF d.enable_shared_directory THEN <<Must("sharedfolder add", "shared")>> ELSE <<>>)

\* register_vm without the reset of vm_name
register_vm_keeps_name ==
    /\ At("register_vm", "entry")
    /\ stack' = Append(Caller, [Label("step") EXCEPT !.step = 1])
    /\ note' = NoNote
    /\ UNCHANGED <<online, suspended, crashed, vm_name, cfg, ret, popen, cmds, vp, history, devices, raw, rd_host_port, vm_pid, priority, configs>>

\* "Reset VM name in case it was changed while deregistering a stale VM"
register_vm ==
    /\ At("register_vm", "entry")
    /\ vm_name' = vm_master_name
    /\ stack' = Append(Caller, [Label("step") EXCEPT !.step = 1])
    /\ note' = NoNote
    /\ UNCHANGED <<online, suspended, crashed, cfg, ret, popen, cmds, vp, history, devices, raw, rd_host_port, vm_pid, priority, configs>>

\* the hardware acceleration check: only for a 32-bit guest, disable_acceleration is set when
\* the host has neither vmx nor svm, or runs under a hypervisor, or, with a client past 7.2.16,
\* vm_extensions_disabled is set, or, with an older client, the VM has one CPU
disable_acceleration(d, aid) ==
    IF Find(d.os_name, "_64", 0) = npos
    THEN \/ (~Contains(aid.p_features, "vmx") /\ ~Contains(aid.p_features, "svm"))
         \/ Contains(aid.p_features, "hypervisor")
         \/ IF is_client_version_newer(aid, 7, 2, 16)
            THEN aid.vm_extensions_disabled
            ELSE d.vm_cpu_count = "1"
    ELSE FALSE

\* if (!pf_host_port): allocate whatever the stored port is
register_vm_allocates_always ==
    TRUE

\* if (!pf_host_port): a port is allocated only when none is stored
register_vm_allocates ==
    pf_host_port = 0

\* the entry frame of set_network_access
NetworkFrame(enabled) ==
    [proc |-> "set_network_access", pc |-> "entry", enabled |-> enabled]

\* the argument of --natpf1
natpf1(host_port, guest_port) ==
    <<"--natpf1", "vboxwrapper,tcp,127.0.0.1,", ToString(host_port), ",,", ToString(guest_port)>>

\* the next step: the hardware acceleration check, a command, or the creation of the floppy image
register_vm_step ==
    /\ At("register_vm", "step")
    /\ LET steps == register_vm_steps(cfg)
           st == steps[Top.step]
           next == IF Top.step = Len(steps)
                   THEN Return(0)
                   ELSE /\ stack' = Append(Caller, [Top EXCEPT !.step = @ + 1])
                        /\ UNCHANGED ret
       IN  IF Top.step > Len(steps)
           THEN /\ Return(0)
                /\ note' = NoNote
                /\ UNCHANGED <<popen, cmds, pFloppy, cableconnected>>
           ELSE IF st.cmd = "disable_acceleration"
           THEN \E aid \in AppInitData :
                /\ stack' = Append(Caller, [Top EXCEPT
                                !.step = @ + 1,
                                !.disable_acceleration = disable_acceleration(cfg, aid)])
                /\ note' = [op |-> "disable_acceleration", aid |-> aid]
                /\ UNCHANGED <<ret, popen, cmds, pFloppy, cableconnected>>
           ELSE IF st.opt = "--hwvirtex off" /\ ~Top.disable_acceleration
           THEN /\ next
                /\ note' = NoNote
                /\ UNCHANGED <<popen, cmds, pFloppy, cableconnected>>
           ELSE IF st.cmd = "FloppyIO"
           THEN /\ \E ready \in BOOLEAN :
                    /\ pFloppy' = IF ready THEN "ready" ELSE "not ready"
                    /\ IF ready THEN next ELSE Return(ERR_FWRITE)
                /\ note' = NoNote
                /\ UNCHANGED <<popen, cmds, cableconnected>>
           ELSE IF st.cmd = "set_network_access"
           THEN /\ Call([Top EXCEPT !.step = @ + 1], NetworkFrame(TRUE))
                /\ note' = NoNote
                /\ UNCHANGED <<ret, popen, cmds, pFloppy, cableconnected>>
           ELSE IF st.cmd = "get_port_forwarding_port"
           THEN /\ IF register_vm_allocates
                   THEN Call([Top EXCEPT !.pc = "port", !.step = @ + 1],
                             Frame("get_port_forwarding_port"))
                   ELSE stack' = Append(Caller, [Top EXCEPT !.step = @ + 1])
                /\ note' = NoNote
                /\ UNCHANGED <<ret, popen, cmds, pFloppy, cableconnected>>
           ELSE IF st.cmd = "is_extpack_installed"
           THEN \E r \in vbm_popen[FALSE, FALSE], output \in ExtpackOutputs :
                /\ popen' = r
                /\ cmds' = Append(cmds, Cmd("list extpacks", NoName, <<>>))
                /\ stack' = Append(Caller, [Top EXCEPT !.step =
                                IF is_extpack_installed(r.retval, output) THEN @ + 1 ELSE @ + 3])
                /\ note' = [op |-> "is_extpack_installed",
                            installed |-> is_extpack_installed(r.retval, output)]
                /\ UNCHANGED <<ret, pFloppy, cableconnected>>
           ELSE IF st.cmd = "get_remote_desktop_port"
           THEN /\ Call([Top EXCEPT !.pc = "port", !.step = @ + 1],
                         Frame("get_remote_desktop_port"))
                /\ note' = NoNote
                /\ UNCHANGED <<ret, popen, cmds, pFloppy, cableconnected>>
           ELSE /\ cmds' = Append(cmds, Cmd(st.cmd, vm_name,
                                IF st.opt = "--natpf1"
                                THEN natpf1(pf_host_port, cfg.pf_guest_port)
                                ELSE IF st.opt = "--vrde on"
                                THEN vrde(rd_host_port)
                                ELSE <<st.opt>>))
                /\ note' = NoNote
                /\ UNCHANGED pFloppy
                /\ IF st.mandatory
                   THEN \E r \in vbm_popen_default :
                        /\ popen' = r
                        /\ IF r.retval # 0 THEN Return(r.retval) ELSE next
                        /\ cableconnected' =
                                IF st.opt = "--nic1 nat --cableconnected1 off" /\ r.retval = 0
                                THEN FALSE ELSE cableconnected
                   ELSE \E r \in vbm_popen[FALSE, FALSE] :
                        /\ popen' = r
                        /\ next
                        /\ UNCHANGED cableconnected
    /\ UNCHANGED <<online, suspended, crashed, vm_name, cfg, vp, history, network_suspended,
                   pf_host_port, raw, rd_host_port, vm_pid, priority, configs>>

\* retval = get_port_forwarding_port(); if (retval) return retval;
\* retval = get_remote_desktop_port(); if (retval) return retval;
register_vm_port ==
    /\ At("register_vm", "port")
    /\ IF ret # 0
       THEN Return(ret)
       ELSE /\ stack' = Append(Caller, Label("step"))
            /\ UNCHANGED ret
    /\ note' = NoNote
    /\ UNCHANGED <<online, suspended, crashed, vm_name, cfg, popen, cmds, vp, history, devices, raw, rd_host_port, vm_pid, priority, configs>>

\* the entry frame of register_vm
RegisterFrame ==
    [proc |-> "register_vm", pc |-> "entry", step |-> 0, disable_acceleration |-> FALSE]

(***************************************************************************)
(* createsnapshot, cleanup                                                 *)
(***************************************************************************)
\* the elapsed time of a checkpoint, in whole seconds
ElapsedSeconds == 3600

\* pause first; running records whether the VM was known to be running on entry
createsnapshot ==
    /\ At("createsnapshot", "entry")
    /\ Call([Label("take") EXCEPT !.running = online /\ ~suspended], Frame("pause"))
    /\ note' = NoNote
    /\ UNCHANGED <<online, suspended, crashed, vm_name, cfg, ret, popen, cmds, vp, history, devices, raw, rd_host_port, vm_pid, priority, configs>>

\* snapshot take boinc_<elapsed>, whatever pause returned; then resume
createsnapshot_take ==
    /\ At("createsnapshot", "take")
    /\ \E r \in vbm_popen_default :
        /\ popen' = r
        /\ IF r.retval # 0
           THEN /\ Return(r.retval)
                /\ note' = [op |-> "createsnapshot", retval |-> r.retval,
                            running |-> Top.running, pause |-> ret]
           ELSE /\ Call(Label("resumed"), Frame("resume"))
                /\ note' = [op |-> "snapshot take", pause |-> ret]
                /\ UNCHANGED ret
    /\ cmds' = Append(cmds, Cmd("snapshot take", vm_name, <<"boinc_", ToString(Top.elapsed_time)>>))
    /\ UNCHANGED <<online, suspended, crashed, vm_name, cfg, vp, history, devices, raw, rd_host_port, vm_pid, priority, configs>>

\* createsnapshot_resumed without the poll
createsnapshot_resumed_nopoll ==
    /\ At("createsnapshot", "resumed")
    /\ Call(Label("cleaned"), CleanupFrame(FALSE))
    /\ note' = NoNote
    /\ UNCHANGED <<online, suspended, crashed, vm_name, cfg, ret, popen, cmds, vp, history, devices, raw, rd_host_port, vm_pid, priority, configs>>

\* poll(false)
createsnapshot_resumed ==
    /\ At("createsnapshot", "resumed")
    /\ Call(Label("polled"), Frame("poll"))
    /\ note' = NoNote
    /\ UNCHANGED <<online, suspended, crashed, vm_name, cfg, ret, popen, cmds, vp, history, devices, raw, rd_host_port, vm_pid, priority, configs>>

\* cleanupsnapshots(false)
createsnapshot_polled ==
    /\ At("createsnapshot", "polled")
    /\ Call(Label("cleaned"), CleanupFrame(FALSE))
    /\ note' = NoNote
    /\ UNCHANGED <<online, suspended, crashed, vm_name, cfg, ret, popen, cmds, vp, history, devices, raw, rd_host_port, vm_pid, priority, configs>>

createsnapshot_cleaned ==
    /\ At("createsnapshot", "cleaned")
    /\ Return(0)
    /\ note' = [op |-> "createsnapshot", retval |-> 0, running |-> Top.running]
    /\ UNCHANGED <<online, suspended, crashed, vm_name, cfg, popen, cmds, vp, history, devices, raw, rd_host_port, vm_pid, priority, configs>>

\* the entry frame of createsnapshot
SnapshotFrame(elapsed_time) ==
    [proc |-> "createsnapshot", pc |-> "entry", elapsed_time |-> elapsed_time, running |-> FALSE]

\* poweroff first
cleanup ==
    /\ At("cleanup", "entry")
    /\ Call(Label("deregister"), HaltFrame("poweroff", Len(cmds)))
    /\ note' = NoNote
    /\ UNCHANGED <<online, suspended, crashed, vm_name, cfg, ret, popen, cmds, vp, history, devices, raw, rd_host_port, vm_pid, priority, configs>>

\* deregister_vm(true)
cleanup_deregister ==
    /\ At("cleanup", "deregister")
    /\ Call(Label("sleep"), DeregisterFrame(TRUE))
    /\ note' = NoNote
    /\ UNCHANGED <<online, suspended, crashed, vm_name, cfg, ret, popen, cmds, vp, history, devices, raw, rd_host_port, vm_pid, priority, configs>>

\* boinc_sleep(5.0)
cleanup_sleep ==
    /\ At("cleanup", "sleep")
    /\ Return(0)
    /\ note' = [op |-> "cleanup"]
    /\ UNCHANGED <<online, suspended, crashed, vm_name, cfg, popen, cmds, vp, history, devices, raw, rd_host_port, vm_pid, priority, configs>>

(***************************************************************************)
(* run                                                                     *)
(***************************************************************************)
\* what run returns when register_only is set
run_register_only == ERR_FOPEN

\* run returns v, left through the exit named
run_return(exit, v) ==
    /\ Return(v)
    /\ note' = [op |-> "run", exit |-> exit, retval |-> v,
                elapsed_time |-> Top.elapsed_time, restore |-> Top.restore]

\* from the register_only test to the poll
run_registered ==
    IF cfg.register_only
    THEN /\ run_return("register_only", run_register_only)
         /\ UNCHANGED vm_name
    ELSE /\ vm_name' = vm_master_name
         /\ Call(Label("polled"), Frame("poll"))
         /\ note' = NoNote
         /\ UNCHANGED ret

\* run_restore without the elapsed_time test
run_restore_always ==
    /\ Call(Label("restored"), Frame("restoresnapshot"))
    /\ note' = NoNote
    /\ UNCHANGED ret

\* from the elapsed_time test to the start
run_restore ==
    /\ IF Top.elapsed_time # 0
       THEN Call(Label("restored"), Frame("restoresnapshot"))
       ELSE Call(Label("started"), StartFrame(Len(cmds)))
    /\ note' = NoNote
    /\ UNCHANGED ret

\* is_registered()
run ==
    /\ At("run", "entry")
    /\ Call(Label("is_registered"), Frame("is_registered"))
    /\ note' = NoNote
    /\ UNCHANGED <<online, suspended, crashed, vm_name, cfg, ret, popen, cmds, vp, history, devices, raw, rd_host_port, vm_pid, priority, configs>>

\* registered: go on; not registered: is_hdd_registered()
run_is_registered ==
    /\ At("run", "is_registered")
    /\ IF ret # 0
       THEN run_registered
       ELSE /\ Call(Label("is_hdd_registered"), Frame("is_hdd_registered"))
            /\ note' = NoNote
            /\ UNCHANGED <<vm_name, ret>>
    /\ UNCHANGED <<online, suspended, crashed, cfg, popen, cmds, vp, history, devices, raw, rd_host_port, vm_pid, priority, configs>>

\* disk registered: deregister_stale_vm(); else register_vm()
run_is_hdd_registered ==
    /\ At("run", "is_hdd_registered")
    /\ IF ret # 0
       THEN Call(Label("stale"), Frame("deregister_stale_vm"))
       ELSE Call(Label("register_vm"), RegisterFrame)
    /\ note' = NoNote
    /\ UNCHANGED <<online, suspended, crashed, vm_name, cfg, ret, popen, cmds, vp, history, devices, raw, rd_host_port, vm_pid, priority, configs>>

\* if (retval) return retval; register_vm()
run_stale ==
    /\ At("run", "stale")
    /\ IF ret # 0
       THEN run_return("deregister_stale_vm", ret)
       ELSE /\ Call(Label("register_vm"), RegisterFrame)
            /\ note' = NoNote
            /\ UNCHANGED ret
    /\ UNCHANGED <<online, suspended, crashed, vm_name, cfg, popen, cmds, vp, history, devices, raw, rd_host_port, vm_pid, priority, configs>>

\* if (retval) return retval; go on
run_register_vm ==
    /\ At("run", "register_vm")
    /\ IF ret # 0
       THEN /\ run_return("register_vm", ret)
            /\ UNCHANGED vm_name
       ELSE run_registered
    /\ UNCHANGED <<online, suspended, crashed, cfg, popen, cmds, vp, history, devices, raw, rd_host_port, vm_pid, priority, configs>>

\* if (online) poweroff(); go on
run_polled ==
    /\ At("run", "polled")
    /\ IF online
       THEN /\ Call(Label("poweredoff"), HaltFrame("poweroff", Len(cmds)))
            /\ note' = NoNote
            /\ UNCHANGED ret
       ELSE run_restore
    /\ UNCHANGED <<online, suspended, crashed, vm_name, cfg, popen, cmds, vp, history, devices, raw, rd_host_port, vm_pid, priority, configs>>

\* the result of poweroff is dropped
run_poweredoff ==
    /\ At("run", "poweredoff")
    /\ run_restore
    /\ UNCHANGED <<online, suspended, crashed, vm_name, cfg, popen, cmds, vp, history, devices, raw, rd_host_port, vm_pid, priority, configs>>

\* the result of restoresnapshot is dropped (restore keeps it for the record); start()
run_restored ==
    /\ At("run", "restored")
    /\ Call([Label("started") EXCEPT !.restore = ret], StartFrame(Len(cmds)))
    /\ note' = NoNote
    /\ UNCHANGED <<online, suspended, crashed, vm_name, cfg, ret, popen, cmds, vp, history, devices, raw, rd_host_port, vm_pid, priority, configs>>

\* if (retval) return retval; return 0
run_started ==
    /\ At("run", "started")
    /\ run_return(IF ret # 0 THEN "start" ELSE "ok", ret)
    /\ UNCHANGED <<online, suspended, crashed, vm_name, cfg, popen, cmds, vp, history, devices, raw, rd_host_port, vm_pid, priority, configs>>

\* the entry frame of run
RunFrame(elapsed_time) ==
    [proc |-> "run", pc |-> "entry", elapsed_time |-> elapsed_time, restore |-> 0]

(***************************************************************************)
(* The supervisor: the job wrapper calls the public operations in any      *)
(* order, one at a time.                                                   *)
(***************************************************************************)
Init ==
    /\ online = FALSE
    /\ suspended = FALSE
    /\ crashed = FALSE
    /\ vm_name = NoName
    /\ cfg \in Descriptors
    /\ stack = <<>>
    /\ ret = 0
    /\ popen = NoPopen
    /\ cmds = <<>>
    /\ note = NoNote
    /\ vp = vbm_popen_exit(vbm_popen_entry(TRUE, TRUE))
    /\ history = "none"
    /\ network_suspended = FALSE
    /\ pf_host_port = 0
    /\ pFloppy = "NULL"
    /\ cableconnected = FALSE
    /\ rd_host_port = 0
    /\ vm_pid = 0
    /\ priority = "default"
    /\ configs = NoConfigs
    /\ raw = NoRaw

\* the frames the wrapper can enter the supervisor with
Operations ==
    {Frame("poll"), Frame("pause"), Frame("resume"), SnapshotFrame(ElapsedSeconds),
     Frame("cleanup"), HaltFrame("stop", 0), HaltFrame("poweroff", 0), StartFrame(0),
     RunFrame(0), RunFrame(ElapsedSeconds)}

\* the history as the wrapper calls f: f is the poweroff() that follows a createsnapshot(T)
\* that returned 0, or the run(T) that follows such a poweroff() that returned 0, or the
\* cleanup() that follows a run() that left at the register_only test, or the cleanup() that
\* follows a start() whose startvm succeeded and whose last poll could not read the state of
\* the VM, or none of these
history_next(f) ==
    IF note.op = "createsnapshot" /\ note.retval = 0 /\ f.proc = "poweroff"
    THEN "createsnapshot"
    ELSE IF /\ note.op = "start" /\ note.polled /\ note.retval = ERR_EXEC /\ popen.retval # 0
            /\ f.proc = "cleanup"
    THEN "startvm"
    ELSE IF note.op = "run" /\ note.exit = "register_only" /\ f.proc = "cleanup"
    THEN "register_only"
    ELSE IF /\ history = "createsnapshot" /\ note.op = "poweroff" /\ note.retval = 0
            /\ f.proc = "run" /\ f.elapsed_time = ElapsedSeconds
    THEN "createsnapshot, poweroff"
    ELSE "none"

\* the wrapper calls an operation
Invoke ==
    /\ stack = <<>>
    /\ \E f \in Operations :
        /\ stack' = <<f>>
        /\ history' = history_next(f)
    /\ ret' = 0
    /\ popen' = NoPopen
    /\ cmds' = <<>>
    /\ note' = NoNote
    /\ UNCHANGED <<online, suspended, crashed, vm_name, cfg, vp, devices, raw, rd_host_port, vm_pid, priority, configs>>

Next ==
    \/ Invoke
    \/ poll
    \/ pause
    \/ pause_command
    \/ resume
    \/ resume_command
    \/ stop
    \/ stop_polled
    \/ poweroff
    \/ poweroff_polled
    \/ start
    \/ start_polled
    \/ restoresnapshot
    \/ cleanupsnapshots
    \/ cleanupsnapshots_line
    \/ is_registered
    \/ is_hdd_registered
    \/ deregister_vm
    \/ deregister_vm_remove
    \/ deregister_stale_vm
    \/ deregister_stale_vm_ret
    \/ register_vm
    \/ register_vm_step
    \/ createsnapshot
    \/ createsnapshot_take
    \/ createsnapshot_resumed
    \/ createsnapshot_polled
    \/ createsnapshot_cleaned
    \/ cleanup
    \/ cleanup_deregister
    \/ cleanup_sleep
    \/ run
    \/ run_is_registered
    \/ run_is_hdd_registered
    \/ run_stale
    \/ run_register_vm
    \/ run_polled
    \/ run_poweredoff
    \/ run_restored
    \/ run_started

Spec == Init /\ [][Next]_vars

(***************************************************************************)
(* The devices of the VM: network access, the forwarded port, the floppy,  *)
(* and the host check.                                                     *)
(***************************************************************************)
\* network_suspended is set first, then modifyvm --cableconnected1 on|off; a command that
\* fails leaves the cable as it was
set_network_access ==
    /\ At("set_network_access", "entry")
    /\ network_suspended' = ~Top.enabled
    /\ cmds' = Append(cmds, Cmd("modifyvm", vm_name,
                    <<IF Top.enabled THEN "--cableconnected1 on" ELSE "--cableconnected1 off">>))
    /\ \E r \in vbm_popen_default :
        /\ popen' = r
        /\ cableconnected' = IF r.retval = 0 THEN Top.enabled ELSE cableconnected
        /\ Return(r.retval)
        /\ note' = [op |-> "set_network_access", enabled |-> Top.enabled, retval |-> r.retval]
    /\ UNCHANGED <<online, suspended, crashed, vm_name, cfg, vp, history, pf_host_port, pFloppy,
                   raw, rd_host_port, vm_pid, priority, configs>>

\* addr.sin_port left as it was set: getsockname is not asked
getsockname_unasked(host_port, bind, port) ==
    IF bind = 0 THEN host_port ELSE 0

\* addr.sin_port after getsockname: the port asked for when that was bound, else the port the
\* system chose
getsockname(host_port, bind, port) ==
    IF host_port # 0 /\ bind = 0 THEN host_port ELSE port

\* bind the stored port (any port when it is 0), else any port; the bound port is stored
get_port_forwarding_port ==
    /\ At("get_port_forwarding_port", "entry")
    /\ \E socket1 \in {0, ERR_SOCKET}, bind1 \in {0, -1},
          socket2 \in {0, ERR_SOCKET}, bind2 \in {0, -1}, port \in EphemeralPorts :
        LET retval == IF socket1 # 0 THEN socket1
                      ELSE IF bind1 >= 0 THEN 0
                      ELSE IF socket2 # 0 THEN socket2
                      ELSE IF bind2 < 0 THEN ERR_BIND
                      ELSE 0
        IN  /\ pf_host_port' = IF retval = 0 THEN getsockname(pf_host_port, bind1, port)
                               ELSE pf_host_port
            /\ Return(retval)
            /\ note' = [op |-> "get_port_forwarding_port", retval |-> retval,
                        pf_host_port |-> pf_host_port,
                        fallback |-> socket1 = 0 /\ bind1 < 0]
    /\ UNCHANGED <<online, suspended, crashed, vm_name, cfg, popen, cmds, vp, history,
                   network_suspended, pFloppy, cableconnected, raw, rd_host_port, vm_pid, priority, configs>>

\* bind any port; the bound port is stored
get_remote_desktop_port ==
    /\ At("get_remote_desktop_port", "entry")
    /\ \E socket \in {0, ERR_SOCKET}, bind \in {0, -1} :
        LET retval == IF socket # 0 THEN socket
                      ELSE IF bind < 0 THEN ERR_BIND
                      ELSE 0
        IN  /\ rd_host_port' = IF retval = 0 THEN RemoteDesktopPort ELSE rd_host_port
            /\ Return(retval)
            /\ note' = [op |-> "get_remote_desktop_port", retval |-> retval]
    /\ UNCHANGED <<online, suspended, crashed, vm_name, cfg, popen, cmds, vp, history, devices,
                   raw, vm_pid, priority, configs>>

\* if (enable_floppyio && pFloppy) { ...; return 0; } return 1;
floppy_retval ==
    IF cfg.enable_floppyio /\ pFloppy # "NULL" THEN 0 ELSE 1

read_floppy ==
    /\ At("read_floppy", "entry")
    /\ Return(floppy_retval)
    /\ note' = [op |-> "read_floppy", retval |-> floppy_retval]
    /\ UNCHANGED <<online, suspended, crashed, vm_name, cfg, popen, cmds, vp, history, devices, raw, rd_host_port, vm_pid, priority, configs>>

write_floppy ==
    /\ At("write_floppy", "entry")
    /\ Return(floppy_retval)
    /\ note' = [op |-> "write_floppy", retval |-> floppy_retval]
    /\ UNCHANGED <<online, suspended, crashed, vm_name, cfg, popen, cmds, vp, history, devices, raw, rd_host_port, vm_pid, priority, configs>>

\* what list hostinfo prints
ProcessorCount == "Processor count:"
NotLoaded == "WARNING: The vboxdrv kernel module is not loaded."
HostInfoOutputs ==
    { <<"Host Information:", "\n", ProcessorCount, "4", "\n">>,
      <<NotLoaded, "\n", "Host Information:", "\n", ProcessorCount, "4", "\n">>,
      <<NotLoaded, "\n">>,
      <<"VBoxManage: error: ", "\n">>,
      <<>> }

\* rc is true unless list hostinfo ran and its output lacks the processor count or has the
\* warning
is_system_ready ==
    /\ At("is_system_ready", "entry")
    /\ cmds' = Append(cmds, Cmd("list hostinfo", NoName, <<>>))
    /\ \E r \in vbm_popen_default, output \in HostInfoOutputs :
        LET rc == IF r.retval = 0
                  THEN /\ Find(output, ProcessorCount, 0) # npos
                       /\ Find(output, NotLoaded, 0) = npos
                  ELSE TRUE
        IN  /\ popen' = r
            /\ Return(IF rc THEN 1 ELSE 0)
            /\ note' = [op |-> "is_system_ready", rc |-> rc, retval |-> r.retval,
                        output |-> output]
    /\ UNCHANGED <<online, suspended, crashed, vm_name, cfg, vp, history, devices, raw, rd_host_port, vm_pid, priority, configs>>

\* the wrapper hands over a descriptor; pf_host_port is 0 or the port the descriptor asks for
InitDevices ==
    /\ online = FALSE
    /\ suspended = FALSE
    /\ crashed = FALSE
    /\ vm_name = NoName
    /\ cfg \in DeviceDescriptors
    /\ stack = <<>>
    /\ ret = 0
    /\ popen = NoPopen
    /\ cmds = <<>>
    /\ note = NoNote
    /\ vp = vbm_popen_exit(vbm_popen_entry(TRUE, TRUE))
    /\ history = "none"
    /\ network_suspended = FALSE
    /\ pf_host_port \in IF cfg.pf_guest_port # 0 THEN {0, ConfiguredPort} ELSE {0}
    /\ pFloppy = "NULL"
    /\ cableconnected = FALSE
    /\ rd_host_port = 0
    /\ vm_pid = 0
    /\ priority = "default"
    /\ configs = NoConfigs
    /\ raw = NoRaw

\* the frames the wrapper enters the device operations with
DeviceOperations ==
    {RegisterFrame, NetworkFrame(TRUE), NetworkFrame(FALSE), Frame("get_port_forwarding_port"),
     Frame("read_floppy"), Frame("write_floppy"), Frame("is_system_ready"),
     Frame("deregister_stale_vm")}

\* the wrapper calls a device operation
InvokeDevices ==
    /\ stack = <<>>
    /\ \E f \in DeviceOperations : stack' = <<f>>
    /\ ret' = 0
    /\ popen' = NoPopen
    /\ cmds' = <<>>
    /\ note' = NoNote
    /\ UNCHANGED <<online, suspended, crashed, vm_name, cfg, vp, history, devices, raw, rd_host_port, vm_pid, priority, configs>>

NextDevices ==
    \/ InvokeDevices
    \/ set_network_access
    \/ get_port_forwarding_port
    \/ get_remote_desktop_port
    \/ read_floppy
    \/ write_floppy
    \/ is_system_ready
    \/ cleanupsnapshots
    \/ cleanupsnapshots_line
    \/ deregister_vm
    \/ deregister_vm_remove
    \/ deregister_stale_vm
    \/ deregister_stale_vm_ret
    \/ register_vm
    \/ register_vm_step
    \/ register_vm_port

SpecDevices == InitDevices /\ [][NextDevices]_vars

(***************************************************************************)
(* The retry loop of vbm_popen on its own, one CLI invocation per step.    *)
(***************************************************************************)
InitRetry ==
    /\ online = FALSE
    /\ suspended = FALSE
    /\ crashed = FALSE
    /\ vm_name = NoName
    /\ cfg = [register_only |-> FALSE, enable_floppyio |-> FALSE,
              os_name |-> <<"Linux26", "_64">>, vm_cpu_count |-> "1",
              enable_network |-> FALSE, pf_guest_port |-> 0, image_filename |-> <<"vm.vdi">>,
       enable_remotedesktop |-> FALSE, enable_shared_directory |-> FALSE]
    /\ stack = <<>>
    /\ ret = 0
    /\ popen = NoPopen
    /\ cmds = <<>>
    /\ note = NoNote
    /\ \E le \in BOOLEAN, rf \in BOOLEAN : vp = vbm_popen_entry(le, rf)
    /\ history = "none"
    /\ network_suspended = FALSE
    /\ pf_host_port = 0
    /\ pFloppy = "NULL"
    /\ cableconnected = FALSE
    /\ rd_host_port = 0
    /\ vm_pid = 0
    /\ priority = "default"
    /\ configs = NoConfigs
    /\ raw = NoRaw

\* vbm_popen_raw returns r and the loop body runs
vbm_popen_raw ==
    /\ ~vp.done
    /\ \E r \in RawResults : vp' = vbm_popen_iter(vp, r)
    /\ UNCHANGED <<online, suspended, crashed, vm_name, cfg, stack, ret, popen, cmds, note, history, devices, raw, rd_host_port, vm_pid, priority, configs>>

\* the next call of vbm_popen
vbm_popen_call ==
    /\ vp.done
    /\ \E le \in BOOLEAN, rf \in BOOLEAN : vp' = vbm_popen_entry(le, rf)
    /\ UNCHANGED <<online, suspended, crashed, vm_name, cfg, stack, ret, popen, cmds, note, history, devices, raw, rd_host_port, vm_pid, priority, configs>>

NextRetry ==
    \/ vbm_popen_raw
    \/ vbm_popen_call

SpecRetry == InitRetry /\ [][NextRetry]_vars

\* vbm_popen under weak fairness: an invocation of the CLI returns, the loop goes on
SpecRetryFair == SpecRetry /\ WF_vars(vbm_popen_raw)

(***************************************************************************)
(* vbm_popen_raw on its own: the child runs, then the return value is      *)
(* worked out.                                                             *)
(***************************************************************************)
InitRaw ==
    /\ online = FALSE
    /\ suspended = FALSE
    /\ crashed = FALSE
    /\ vm_name = NoName
    /\ cfg \in Descriptors
    /\ stack = <<>>
    /\ ret = 0
    /\ popen = NoPopen
    /\ cmds = <<>>
    /\ note = NoNote
    /\ vp = vbm_popen_exit(vbm_popen_entry(TRUE, TRUE))
    /\ history = "none"
    /\ network_suspended = FALSE
    /\ pf_host_port = 0
    /\ pFloppy = "NULL"
    /\ cableconnected = FALSE
    /\ rd_host_port = 0
    /\ vm_pid = 0
    /\ priority = "default"
    /\ configs = NoConfigs
    /\ \E platform \in Platforms : raw = vbm_popen_raw_entry(platform)

\* the child could not be started, or it ran, printed output and exited
vbm_popen_raw_exec ==
    /\ raw.pc = "entry"
    /\ \/ raw' = [raw EXCEPT !.pc = "cleanup"]
       \/ \E exit_code \in {0, 1}, output \in RawOutputs :
            raw' = [raw EXCEPT !.pc = "cleanup", !.started = TRUE,
                               !.exit_code = exit_code, !.output = output]
    /\ UNCHANGED <<online, suspended, crashed, vm_name, cfg, stack, ret, popen, cmds, note, vp,
                   history, devices, rd_host_port, vm_pid, priority, configs>>

\* from CLEANUP (from pclose) to the return
vbm_popen_raw_return ==
    /\ raw.pc = "cleanup"
    /\ raw' = [raw EXCEPT !.pc = "done",
                          !.retval = vbm_popen_raw_retval(raw.platform, raw.started,
                                                          raw.exit_code, raw.output)]
    /\ UNCHANGED <<online, suspended, crashed, vm_name, cfg, stack, ret, popen, cmds, note, vp,
                   history, devices, rd_host_port, vm_pid, priority, configs>>

\* the next call
vbm_popen_raw_again ==
    /\ raw.pc = "done"
    /\ raw' = vbm_popen_raw_entry(raw.platform)
    /\ UNCHANGED <<online, suspended, crashed, vm_name, cfg, stack, ret, popen, cmds, note, vp,
                   history, devices, rd_host_port, vm_pid, priority, configs>>

NextRaw ==
    \/ vbm_popen_raw_exec
    \/ vbm_popen_raw_return
    \/ vbm_popen_raw_again

SpecRaw == InitRaw /\ [][NextRaw]_vars

(***************************************************************************)
(* Properties.                                                             *)
(***************************************************************************)
\* k answers 0x80bb0007 in a row
Locks(k) == [i \in 1..k |-> VBOX_E_INVALID_OBJECT_STATE]

\* how often the subcommand c occurs in a command log
CountCmd(log, c) == Cardinality({i \in 1..Len(log) : log[i].cmd = c})

\* the command log is that of a run() in progress or just returned
RunLog == (stack # <<>> /\ stack[1].proc = "run") \/ note.op = "run"

\* C1: in every reachable state online implies not crashed, and crashed implies not online
C1_OnlineExcludesCrashed ==
    /\ online => ~crashed
    /\ crashed => ~online

\* a poll has just reported a crashed VM
C1_Witness ==
    note.op = "poll" /\ note.parsed /\ note.vmstate = "aborted" /\ crashed /\ ~online

\* C2: in every reachable state suspended implies online, also after pause() and resume()
C2_SuspendedImpliesOnline ==
    suspended => online

\* the flags the table of the specification gives for a token
C3_Table(t) ==
    IF t \in {"running", "starting", "stopping", "saving", "restoring",
              "livesnapshotting", "deletingsnapshotlive"} THEN <<TRUE, FALSE, FALSE>>
    ELSE IF t \in {"paused", "deletingsnapshotlivepaused"} THEN <<TRUE, TRUE, FALSE>>
    ELSE IF t \in {"aborted", "gurumeditation"} THEN <<FALSE, FALSE, TRUE>>
    ELSE <<FALSE, FALSE, FALSE>>

\* C3: after a poll that parsed the token t, (online, suspended, crashed) is the table's row for t
C3_PollFollowsTable ==
    (note.op = "poll" /\ note.parsed) => <<online, suspended, crashed>> = C3_Table(note.vmstate)

\* the call has returned and the CLI answered N < 5 locks, followed by success if it was asked again
C4_LockedFewerThanFive ==
    /\ vp.done
    /\ \E n \in 0..(MaxRetries - 1) :
        \/ vp.answers = Locks(n) \o <<0>>
        \/ n > 0 /\ vp.answers = Locks(n)

\* C4 as claimed: any operation whose CLI answers N < 5 locks and then success returns success
\* after exactly N retries, N + 1 invocations
C4_AnyOperationRetries ==
    C4_LockedFewerThanFive =>
        /\ vp.retval = 0
        /\ vp.ncalls = vp.retry_count + 1
        /\ vp.answers = Locks(vp.retry_count) \o <<0>>

\* C4 (amended): a vbm_popen call with retry_failures = true whose CLI answers N < 5 locks and
\* then success returns success after exactly N retries, N + 1 invocations
C4_RetryableOperationRetries ==
    (vp.retry_failures /\ C4_LockedFewerThanFive) =>
        /\ vp.retval = 0
        /\ vp.ncalls = vp.retry_count + 1
        /\ vp.answers = Locks(vp.retry_count) \o <<0>>
        /\ Len(vp.slept) = vp.retry_count

\* four locks, then success on the fifth invocation
C4_Witness ==
    vp.done /\ vp.retry_failures /\ vp.answers = Locks(4) \o <<0>> /\ vp.retval = 0

\* C5 as claimed: a retryable call whose first five invocations are answered with the lock error
\* returns failure after them, with the note in the logged output
C5_FiveLocksFail ==
    ( /\ vp.done /\ vp.retry_failures /\ vp.log_error
      /\ Len(vp.answers) >= MaxRetries
      /\ SubSeq(vp.answers, 1, MaxRetries) = Locks(MaxRetries) ) =>
        /\ vp.retval # 0
        /\ vp.ncalls = MaxRetries
        /\ vp.notes_logged

\* C5 (amended): a retryable call whose first six invocations are answered with the lock error
\* returns that error after the sixth, and the note is in the output iff log_error is set
C5_SixLocksFail ==
    ( /\ vp.retry_failures
      /\ Len(vp.answers) >= MaxRetries + 1
      /\ SubSeq(vp.answers, 1, MaxRetries + 1) = Locks(MaxRetries + 1) ) =>
        /\ vp.done
        /\ vp.retval = VBOX_E_INVALID_OBJECT_STATE
        /\ vp.ncalls = MaxRetries + 1
        /\ vp.retry_count = MaxRetries
        /\ vp.retry_notes
        /\ vp.notes_logged <=> vp.log_error

\* six locks in a row, logged
C5_Witness ==
    /\ vp.done /\ vp.retry_failures /\ vp.log_error
    /\ vp.answers = Locks(MaxRetries + 1)
    /\ vp.notes_logged

\* at most 5 retries; without retry_failures one invocation, whose result is returned
C6_Bounded ==
    /\ vp.retry_count <= 5
    /\ vp.ncalls <= 6
    /\ vp.ncalls = Len(vp.answers)
    /\ vp.retry_count = Len(vp.slept)
    /\ ~vp.done => vp.ncalls = vp.retry_count
    /\ (~vp.retry_failures /\ vp.ncalls > 0) =>
        /\ vp.done
        /\ vp.ncalls = 1
        /\ vp.retry_count = 0
        /\ vp.retval = vp.answers[1]

\* C6: every vbm_popen call terminates, after at most 5 retries; with retry_failures = false it
\* makes exactly one CLI invocation and returns its result
C6_Terminates ==
    /\ []C6_Bounded
    /\ (~vp.done) ~> vp.done

\* a call that gave up after the fifth retry
C6_Witness ==
    vp.done /\ vp.retry_failures /\ vp.retry_count = 5 /\ vp.ncalls = 6 /\ vp.retval # 0

\* C7: start() hands startvm to the CLI once; if startvm succeeded and no poll saw the VM online,
\* start() returns ERR_EXEC once more than 300 s have passed; it returns success only with online
C7_StartBudget ==
    note.op = "start" =>
        /\ CountCmd(note.issued, "startvm") = 1
        /\ note.issued[1].cmd = "startvm"
        /\ note.retval = BOINC_SUCCESS => (online /\ note.polled)
        /\ (note.polled /\ ~online) =>
            /\ note.retval = ERR_EXEC
            /\ note.waited > StartBudget
            /\ note.waited - (PollSeconds + 1) <= StartBudget
            /\ CountCmd(note.issued, "showvminfo --machinereadable") = Len(note.issued) - 1
        /\ ~note.polled => (note.retval # 0 /\ Len(note.issued) = 1)

\* start() gave up after the budget
C7_Witness ==
    /\ note.op = "start" /\ note.polled /\ ~online
    /\ note.retval = ERR_EXEC
    /\ note.waited > StartBudget

\* C8: stop() and poweroff(), entered online, issue their controlvm command once and poll once,
\* and return 0 iff that poll left online false, else ERR_EXEC; entered offline they issue nothing
C8_StopPoweroff ==
    note.op \in {"stop", "poweroff"} =>
        IF note.was_online
        THEN /\ note.issued =
                    << Cmd(IF note.op = "stop" THEN "controlvm savestate" ELSE "controlvm poweroff",
                           vm_name, <<>>),
                       Cmd("showvminfo --machinereadable", vm_name, <<>>) >>
             /\ note.ctl.ncalls = 1
             /\ note.polls.ncalls = 1
             /\ note.retval = (IF online THEN ERR_EXEC ELSE BOINC_SUCCESS)
        ELSE /\ note.issued = <<>>
             /\ note.retval = 0

\* the savestate command failed, the poll saw the VM offline, stop() returned success
C8_Witness ==
    /\ note.op = "stop" /\ note.was_online
    /\ note.ctl.retval # 0
    /\ ~online /\ note.retval = BOINC_SUCCESS

\* C9: with register_only, run() returns a non-zero value after registration without poweroff,
\* restorecurrent or startvm, and no failing run() returns that value
C9_RegisterOnlyDistinguished ==
    note.op = "run" =>
        /\ note.exit = "register_only" =>
            /\ note.retval # 0
            /\ CountCmd(cmds, "controlvm poweroff") = 0
            /\ CountCmd(cmds, "snapshot restorecurrent") = 0
            /\ CountCmd(cmds, "startvm") = 0
        /\ note.exit \in {"deregister_stale_vm", "register_vm", "start"} =>
            note.retval # run_register_only

\* the commands by which deregister_vm removes a VM and its media
C10_Deregistering ==
    {"storagectl --remove", "unregistervm", "closemedium disk", "closemedium floppy"}

\* C10: in run(), a UUID found by deregister_stale_vm becomes vm_name and deregister_vm(false)
\* runs against it; createvm comes after, under master_name; past registration vm_name is
\* master_name
C10_StaleDiskRecovery ==
    /\ (note.op = "deregister_stale_vm" /\ note.uuid # <<>>) =>
        /\ vm_name = note.uuid
        /\ At("deregister_vm", "entry")
        /\ ~Top.delete_media
    /\ RunLog =>
        \A i \in 1..Len(cmds) :
            /\ cmds[i].cmd \in {"storagectl --remove", "unregistervm"} => cmds[i].vm = StaleUUID
            /\ cmds[i].cmd \in {"closemedium disk", "closemedium floppy"} => cmds[i].opt = <<>>
            /\ cmds[i].cmd = "createvm" =>
                /\ cmds[i].vm = vm_master_name
                /\ \A j \in 1..Len(cmds) : cmds[j].cmd \in C10_Deregistering => j < i
    /\ (stack # <<>> /\ stack[1].proc = "run"
            /\ stack[1].pc \in {"polled", "poweredoff", "restored", "started"}) =>
        vm_name = vm_master_name

\* a run() that deregistered the stale VM by UUID, registered the VM anew and started it
C10_Witness ==
    /\ note.op = "run" /\ note.exit = "ok"
    /\ vm_name = vm_master_name
    /\ \E i, j \in 1..Len(cmds) :
        /\ i < j
        /\ cmds[i] = Cmd("unregistervm", StaleUUID, <<"--delete">>)
        /\ cmds[i + 1] = Cmd("closemedium disk", NoName, <<>>)
        /\ cmds[j] = Cmd("createvm", vm_master_name, <<"--register">>)

\* C11: a run(T) that returns success after createsnapshot(T) and poweroff() succeeded leaves the
\* VM online and has restored the current snapshot: its restorecurrent returned 0
C11_RoundTrip ==
    (note.op = "run" /\ note.exit = "ok" /\ history = "createsnapshot, poweroff") =>
        /\ online
        /\ note.elapsed_time = ElapsedSeconds
        /\ note.restore = 0

\* C12: restoresnapshot() returns what its restorecurrent command returned, and a run(T > 0)
\* whose restoresnapshot() failed returns a non-zero value
C12_RestoreFailurePropagates ==
    /\ note.op = "restoresnapshot" => ret = popen.retval
    /\ (note.op = "run" /\ note.elapsed_time # 0 /\ note.restore # 0) => note.retval # 0

\* C13: createsnapshot hands `snapshot take` to the CLI only when its pause() returned 0
C13_TakeOnlyWhilePaused ==
    (note.op = "snapshot take" \/ (note.op = "createsnapshot" /\ note.retval # 0)) =>
        note.pause = 0

\* C14: a createsnapshot that has returned and issued controlvm pause has issued controlvm resume
\* after it
C14_ResumeBeforeReturn ==
    note.op = "createsnapshot" =>
        \A i \in 1..Len(cmds) :
            cmds[i].cmd = "controlvm pause" =>
                \E j \in (i + 1)..Len(cmds) : cmds[j].cmd = "controlvm resume"

\* the commands of a checkpoint up to the listing of the snapshots
C15_Prefix ==
    << Cmd("controlvm pause", vm_name, <<>>),
       Cmd("snapshot take", vm_name, <<"boinc_", ToString(ElapsedSeconds)>>),
       Cmd("controlvm resume", vm_name, <<>>),
       Cmd("showvminfo --machinereadable", vm_name, <<>>),
       Cmd("snapshot list", vm_name, <<>>) >>

\* C15: a createsnapshot(T) that returns 0 has issued controlvm pause, snapshot take boinc_<T>,
\* controlvm resume, showvminfo --machinereadable, snapshot list, in this order, and after them
\* nothing but snapshot delete
C15_CheckpointOrder ==
    (note.op = "createsnapshot" /\ note.retval = 0) =>
        /\ Len(cmds) >= Len(C15_Prefix)
        /\ SubSeq(cmds, 1, Len(C15_Prefix)) = C15_Prefix
        /\ \A i \in (Len(C15_Prefix) + 1)..Len(cmds) : cmds[i].cmd = "snapshot delete"

\* a checkpoint of a running VM that deleted a stale snapshot
C15_Witness ==
    /\ note.op = "createsnapshot" /\ note.retval = 0 /\ note.running
    /\ Len(cmds) = Len(C15_Prefix) + 1
    /\ cmds[Len(cmds)].cmd = "snapshot delete"

\* C16: a createsnapshot entered with the VM running that returns 0 leaves suspended false
C16_NotLeftPaused ==
    (note.op = "createsnapshot" /\ note.retval = 0 /\ note.running) => ~suspended

\* the UUIDs of the lines of a listing marked `*`
C17_ActiveIds(listing) ==
    {<<listing[k + 1]>> : k \in {k \in 1..(Len(listing) - 3) :
                                    listing[k] = "(UUID: " /\ listing[k + 3] = "*"}}

\* the UUIDs that the snapshot delete commands of the operation name
C17_Deleted ==
    {cmds[i].opt : i \in {i \in 1..Len(cmds) : cmds[i].cmd = "snapshot delete"}}

\* C17: cleanupsnapshots(false) never issues snapshot delete for a snapshot whose line of the
\* listing is marked `*`, whatever the listing and whatever the delete commands answer
C17_ActiveKept ==
    /\ (stack # <<>> /\ Top.proc = "cleanupsnapshots" /\ ~Top.delete_active) =>
        C17_Deleted \cap C17_ActiveIds(Top.listing) = {}
    /\ (note.op = "cleanupsnapshots" /\ ~note.delete_active) =>
        C17_Deleted \cap C17_ActiveIds(note.listing) = {}

\* cleanupsnapshots(false) came to the line of the active snapshot and stopped there
C17_Witness ==
    /\ note.op = "cleanupsnapshots" /\ ~note.delete_active
    /\ note.stop = "break"
    /\ C17_ActiveIds(note.listing) # {}
    /\ C17_Deleted = {}

\* the UUIDs of a listing that cleanupsnapshots is to delete: all of them, or those of the
\* lines before the first line marked `*`
C18_Deletable(listing, delete_active) ==
    {<<listing[k + 1]>> : k \in {k \in 1..(Len(listing) - 2) :
        /\ listing[k] = "(UUID: "
        /\ delete_active \/ \A j \in 1..(k + 3) : j <= Len(listing) => listing[j] # "*"}}

\* C18: a cleanupsnapshots that read the listing issues one snapshot delete for every UUID of
\* the listing that it is to delete
C18_DeletesOneByOne ==
    note.op = "cleanupsnapshots" =>
        /\ C17_Deleted = C18_Deletable(note.listing, note.delete_active)
        /\ CountCmd(cmds, "snapshot delete")
                = Cardinality(C18_Deletable(note.listing, note.delete_active))

\* C19: when `snapshot list` prints "This VM does not have any snapshots", cleanupsnapshots
\* leaves its loop at that line, returns 0 and issues no snapshot delete, whatever delete_active
C19_NoSnapshots ==
    /\ (stack # <<>> /\ Top.proc = "cleanupsnapshots" /\ Top.listing = NoSnapshots) =>
        CountCmd(cmds, "snapshot delete") = 0
    /\ (note.op = "cleanupsnapshots" /\ note.listing = NoSnapshots) =>
        /\ ret = 0
        /\ note.stop = "break"
        /\ CountCmd(cmds, "snapshot delete") = 0

\* cleanupsnapshots(true) returned from a VM without snapshots
C19_Witness ==
    /\ note.op = "cleanupsnapshots" /\ note.delete_active
    /\ note.listing = NoSnapshots
    /\ ret = 0

\* the client is strictly newer than 7.2.16
C20_Newer(version) ==
    \/ version[1] > 7
    \/ version[1] = 7 /\ version[2] > 2
    \/ version[1] = 7 /\ version[2] = 2 /\ version[3] > 16

\* when hardware virtualization is to be switched off
C20_Condition(d, aid) ==
    /\ ~Contains(d.os_name, "_64")
    /\ \/ ~Contains(aid.p_features, "vmx") /\ ~Contains(aid.p_features, "svm")
       \/ Contains(aid.p_features, "hypervisor")
       \/ C20_Newer(aid.version) /\ aid.vm_extensions_disabled
       \/ ~C20_Newer(aid.version) /\ d.vm_cpu_count = "1"

\* modifyvm --hwvirtex off is among the commands issued
C20_Issued ==
    \E i \in 1..Len(cmds) : cmds[i] = Cmd("modifyvm", vm_name, <<"--hwvirtex off">>)

\* C20: register_vm decides to issue modifyvm --hwvirtex off iff the guest is 32-bit and the
\* host lacks vmx and svm, or has the hypervisor feature, or the client is newer than 7.2.16 and
\* reports vm_extensions_disabled, or is not newer and cpu_count is 1; the command is issued iff
\* so decided, as the next command after the decision, and never for a 64-bit guest
C20_HardwareAcceleration ==
    /\ note.op = "disable_acceleration" =>
        /\ Top.disable_acceleration <=> C20_Condition(cfg, note.aid)
        /\ ~C20_Issued
    /\ (stack # <<>> /\ Top.proc = "register_vm") =>
        /\ C20_Issued => Top.disable_acceleration
        /\ (\E i \in 1..Len(cmds) : cmds[i].cmd = "storagectl --add") =>
            (Top.disable_acceleration => C20_Issued)
    /\ Contains(cfg.os_name, "_64") =>
        \A i \in 1..Len(cmds) : cmds[i].opt # <<"--hwvirtex off">>

\* a 32-bit guest with one CPU on a host with vmx, the client at 7.2.16 reporting no earlier
\* failure: register_vm has decided to switch hardware virtualization off
C20_Witness ==
    /\ note.op = "disable_acceleration"
    /\ ~Contains(cfg.os_name, "_64") /\ cfg.vm_cpu_count = "1"
    /\ note.aid = [p_features |-> <<"fpu", "vmx">>, version |-> <<7, 2, 16>>,
                   vm_extensions_disabled |-> FALSE]
    /\ Top.disable_acceleration

\* the value of the first (0x...) code of the output, 0 when there is none
C28_FirstCode(output) ==
    LET first == Find(output, "(0x", 0)
    IN  IF first = npos THEN 0
        ELSE sscanf_x(Substr(output, first + 1, Find(output, ")", first + 1)), 0)

\* C28: vbm_popen_raw returns 0 when the command succeeds; when it fails, the value of the first
\* (0x...) code of the output, wherever that is, and ERR_FOPEN when the output has none
C28_RawReturnValue ==
    raw.pc = "done" =>
        raw.retval =
            IF raw.started /\ raw.exit_code = 0 THEN 0
            ELSE IF Contains(raw.output, "(0x") THEN C28_FirstCode(raw.output)
            ELSE ERR_FOPEN

\* C21: while register_vm runs, a pf_host_port that is not 0 is not changed and
\* get_port_forwarding_port is called only with pf_host_port 0; the NAT rule issued is
\* vboxwrapper,tcp,127.0.0.1,<pf_host_port>,,<pf_guest_port> with the stored pf_host_port
C21_StoredPort ==
    /\ [][(stack # <<>> /\ stack[1].proc = "register_vm")
            => /\ pf_host_port # 0 => pf_host_port' = pf_host_port
               /\ (Len(stack') > Len(stack) /\ stack'[Len(stack')].proc = "get_port_forwarding_port")
                    => pf_host_port = 0]_vars
    /\ [](\A i \in 1..Len(cmds) :
            (cmds[i].opt # <<>> /\ cmds[i].opt[1] = "--natpf1")
                => /\ pf_host_port # 0
                   /\ cmds[i].opt = <<"--natpf1", "vboxwrapper,tcp,127.0.0.1,",
                                      ToString(pf_host_port), ",,", ToString(cfg.pf_guest_port)>>)

\* C21 witness: register_vm issued the NAT rule with the port that was stored before it ran
C21_Witness ==
    /\ pf_host_port = ConfiguredPort
    /\ Len(cmds) > 0
    /\ cmds[1].cmd = "createvm"
    /\ cmds[Len(cmds)].opt = <<"--natpf1", "vboxwrapper,tcp,127.0.0.1,", "8080", ",,", "80">>

C23_DeregisterNamesMaster ==
    (note.op = "deregister_vm" /\ note.delete_media /\ history = "register_only") =>
        \E i \in 1..Len(cmds) : cmds[i].cmd = "unregistervm" /\ cmds[i].vm = vm_master_name

\* C24: deregister_stale_vm with an empty image_filename returns 0 after at most one CLI
\* invocation
C24_EmptyImage ==
    (/\ stack = <<>>
     /\ cmds # <<>>
     /\ cmds[1].cmd = "showhdinfo"
     /\ cfg.image_filename = <<>>) =>
        /\ ret = 0
        /\ Len(cmds) <= 1
        /\ popen.ncalls <= 1

\* C25: when set_network_access returns, also with an error, network_suspended is false only
\* if the cable is connected
C25_SuspendedFollowsCable ==
    note.op = "set_network_access" => (~network_suspended => cableconnected)

\* C26: read_floppy and write_floppy return 0 only when enable_floppyio is set and the floppy
\* image was created
C26_FloppyNeedsMedium ==
    (note.op \in {"read_floppy", "write_floppy"} /\ note.retval = 0) =>
        (cfg.enable_floppyio /\ pFloppy = "ready")

\* C27: is_system_ready returns false whenever the output it has lacks "Processor count:" or
\* has the vboxdrv warning, also when list hostinfo failed
C27_NotReady ==
    (/\ note.op = "is_system_ready"
     /\ \/ ~Contains(note.output, "Processor count:")
        \/ Contains(note.output, "WARNING: The vboxdrv kernel module is not loaded.")) =>
        ~note.rc

\* C29: in a vbm_popen call whose attempts so far all failed with 0x80bb0007, the k-th sleep
\* is 2^(k-1) seconds; two lock failures and then success are three CLI calls with sleeps of
\* 1 s and 2 s between them
C29_Backoff ==
    /\ \A k \in 1..Len(vp.slept) :
            SubSeq(vp.answers, 1, k) = Locks(k) => vp.slept[k] = 2 ^ (k - 1)
    /\ (vp.retry_failures /\ Len(vp.answers) >= 3 /\ SubSeq(vp.answers, 1, 3) = Locks(2) \o <<0>>) =>
            /\ vp.done
            /\ vp.retval = 0
            /\ vp.ncalls = 3
            /\ vp.slept = <<1, 2>>

\* C29 witness: five lock failures, slept 1, 2, 4, 8 and 16 s, and the sixth attempt is to come
C29_Witness ==
    /\ ~vp.done
    /\ vp.answers = Locks(5)
    /\ vp.slept = <<1, 2, 4, 8, 16>>

\* the places of the subcommand c in the command log
C30_Places(c) ==
    {i \in 1..Len(cmds) : cmds[i].cmd = c}

\* the place of the poll of run in the log of a run: the first showvminfo after is_registered's
C30_Poll ==
    CHOOSE i \in C30_Places("showvminfo --machinereadable") \ {1} :
        \A j \in C30_Places("showvminfo --machinereadable") \ {1} : i <= j

ERR_NOT_FOUND == -161

\* what showvminfo --log 0 prints: the digits of the process id are tokens of their own
VmLogOutputs ==
    { <<"00:00:06.015 Executable: VirtualBox.exe", "\n", "00:00:06.015 ", "Process ID: ",
        "6", "1", "2", "8", "\n", "00:00:06.015 Package type: WINDOWS_64BITS_GENERIC", "\n">>,
      <<"00:00:06.015 ", "Process ID: ", "6", "1", "2", "8">>,
      <<"00:00:06.015 ", "Process ID: ", "\n">>,
      <<"00:00:06.015 ", "Process ID: ", "n/a", "\n">>,
      <<"00:00:06.015 Executable: VirtualBox.exe", "\n">> }

\* atol: the number the leading decimal digits of the text spell, 0 when there is none
RECURSIVE atol(_, _)
atol(text, acc) ==
    IF text = <<>> \/ Head(text) \notin {"0", "1", "2", "3", "4", "5", "6", "7", "8", "9"}
    THEN acc
    ELSE atol(Tail(text), acc * 10 + HexDigit[Head(text)])

\* showvminfo --log 0, then the number after "Process ID: " is stored
get_vm_process_id ==
    /\ At("get_vm_process_id", "entry")
    /\ \E r \in vbm_popen_default, output \in VmLogOutputs :
        LET pid_start == Find(output, "Process ID: ", 0)
            pid == Substr(output, pid_start + 1, Find(output, "\n", pid_start + 1))
            retval == IF r.retval # 0 THEN r.retval
                      ELSE IF pid_start = npos THEN ERR_NOT_FOUND
                      ELSE IF Len(pid) <= 0 THEN ERR_NOT_FOUND
                      ELSE 0
        IN  /\ popen' = r
            /\ vm_pid' = IF retval = 0 THEN atol(pid, 0) ELSE vm_pid
            /\ Return(retval)
            /\ note' = [op |-> "get_vm_process_id", retval |-> retval]
    /\ cmds' = Append(cmds, Cmd("showvminfo --log 0", vm_name, <<>>))
    /\ UNCHANGED <<online, suspended, crashed, vm_name, cfg, vp, history, devices, raw,
                   rd_host_port, priority, configs>>

\* a VBOX_VM and the APP_CONFIGS of a project after construction
InitPause ==
    /\ online = FALSE
    /\ suspended = FALSE
    /\ crashed = FALSE
    /\ vm_name = NoName
    /\ cfg \in {d \in DeviceDescriptors : d.pf_guest_port # 0}
    /\ stack = <<>>
    /\ ret = 0
    /\ popen = NoPopen
    /\ cmds = <<>>
    /\ note = NoNote
    /\ vp = vbm_popen_exit(vbm_popen_entry(TRUE, TRUE))
    /\ history = "none"
    /\ network_suspended = FALSE
    /\ pf_host_port = 0
    /\ pFloppy = "NULL"
    /\ cableconnected = FALSE
    /\ rd_host_port = 0
    /\ vm_pid = 0
    /\ priority = "default"
    /\ configs = NoConfigs
    /\ raw = NoRaw

\* the history as the wrapper makes its next call: the pause() and resume() that returned 0
\* so far, in a row and with nothing but polls between them
history_pause ==
    IF note.op = "pause" /\ ret = 0
    THEN IF history = "pause, resume" THEN "pause, resume, pause" ELSE "pause"
    ELSE IF note.op = "resume" /\ ret = 0 /\ history = "pause"
    THEN "pause, resume"
    ELSE IF note.op = "poll"
    THEN history
    ELSE "none"

\* the wrapper calls one of these operations
InvokePause ==
    /\ stack = <<>>
    /\ \E f \in {Frame("poll"), Frame("pause"), Frame("resume"), Frame("get_vm_process_id"),
                NetworkFrame(TRUE), NetworkFrame(FALSE), Frame("get_port_forwarding_port")} :
            stack' = <<f>>
    /\ history' = history_pause
    /\ ret' = 0
    /\ popen' = NoPopen
    /\ cmds' = <<>>
    /\ note' = NoNote
    /\ UNCHANGED <<online, suspended, crashed, vm_name, cfg, vp, devices, raw, rd_host_port, vm_pid, priority, configs>>

NextPause ==
    \/ InvokePause
    \/ poll
    \/ pause
    \/ pause_command
    \/ resume
    \/ resume_command
    \/ get_vm_process_id
    \/ set_network_access
    \/ get_port_forwarding_port

SpecPause == InitPause /\ [][NextPause]_vars

(***************************************************************************)
(* The specification of the application configuration.                     *)
(***************************************************************************)
SpecAppConfig ==
    InitPause /\ [][check_app_config]_vars

\* C40: after any sequence of APP_CONFIGS::parse calls on one object, app_configs and
\* app_version_configs hold exactly the entries of the file parsed last, which are the
\* entries that parsing this file into a new object gives
C40_LastFileOnly ==
    configs.nparse > 0 =>
        LET fresh == APP_CONFIGS_parse(NoConfigs, configs.file)
        IN  /\ configs.app_configs = fresh.app_configs
            /\ configs.app_version_configs = fresh.app_version_configs

\* C38: run never issues startvm while the most recent poll observed the VM online: when
\* run enters start after a poll whose command succeeded, the online flag, which only a
\* poll that read a VMState sets, is false
C38_StartOnlyOffline ==
    (At("start", "entry") /\ Len(stack) = 2 /\ stack[1].proc = "run" /\ popen.retval = 0)
        => ~online

\* the step of the order of C32 a command of register_vm belongs to: 1 createvm and the
\* settings, 2 the hard disk controller, 3 the primary disk, 4 the floppy controller, 5 the
\* floppy, 6 network and port forwarding, 7 remote desktop, 8 shared folder
C32_Stage(c) ==
    IF c.cmd = "storagectl --add" /\ c.opt = <<"Hard Disk Controller">> THEN 2
    ELSE IF c.cmd = "storageattach" /\ c.opt = <<"Hard Disk Controller">> THEN 3
    ELSE IF c.cmd = "storagectl --add" /\ c.opt = <<"Floppy Controller">> THEN 4
    ELSE IF c.cmd = "storageattach" /\ c.opt = <<"Floppy Controller">> THEN 5
    ELSE IF c.opt = <<"--cableconnected1 on">> \/ (c.opt # <<>> /\ c.opt[1] = "--natpf1") THEN 6
    ELSE IF c.cmd = "list extpacks" \/ (c.opt # <<>> /\ c.opt[1] = "--vrde on") THEN 7
    ELSE IF c.cmd = "sharedfolder add" THEN 8
    ELSE 1

\* C32: register_vm issues its commands in the order of the steps: createvm first, the hard
\* disk controller before the primary disk, the primary disk before the floppy controller and
\* the floppy, the floppy before network and port forwarding, then remote desktop, then the
\* shared folder
C32_Order ==
    (cmds # <<>> /\ cmds[1].cmd = "createvm") =>
        \A i, j \in 1..Len(cmds) :
            (i < j) => /\ cmds[j].cmd # "createvm"
                       /\ C32_Stage(cmds[i]) <= C32_Stage(cmds[j])

\* the storage controllers register_vm adds for the descriptor
C33_Added ==
    {st.opt : st \in {register_vm_steps(cfg)[k] : k \in 1..Len(register_vm_steps(cfg))}
                     \cap {Must("storagectl --add", "Hard Disk Controller"),
                           Must("storagectl --add", "Floppy Controller")}}

\* C33: deregister_vm removes every storage controller register_vm added before it
\* unregisters the VM
C33_RemovesAdded ==
    note.op = "deregister_vm" =>
        \A name \in C33_Added :
            \E i, j \in 1..Len(cmds) :
                /\ i < j
                /\ cmds[i].cmd = "storagectl --remove"
                /\ cmds[i].opt = <<name>>
                /\ cmds[j].cmd = "unregistervm"

\* the log is that of a register_vm
C34_Registering ==
    cmds # <<>> /\ cmds[1].cmd = "createvm"

\* C34: with enable_network false register_vm issues neither --cableconnected1 on nor
\* --natpf1 and, when it returns 0, leaves the cable disconnected; the cable gets connected
\* only by a set_network_access(true)
C34_CableOnlyOnRequest ==
    /\ []((C34_Registering /\ ~cfg.enable_network) =>
            /\ \A i \in 1..Len(cmds) :
                    /\ cmds[i].opt # <<"--cableconnected1 on">>
                    /\ cmds[i].opt = <<>> \/ cmds[i].opt[1] # "--natpf1"
            /\ (stack = <<>> /\ ret = 0) => ~cableconnected)
    /\ [][(~cableconnected /\ cableconnected') =>
            (At("set_network_access", "entry") /\ Top.enabled)]_vars

\* a register_vm without network ran through its last command and returned 0
C34_Witness ==
    /\ C34_Registering
    /\ ~cfg.enable_network
    /\ stack = <<>>
    /\ ret = 0
    /\ network_suspended = FALSE
    /\ cmds[Len(cmds)].cmd = "storageattach"

\* the steps whose result register_vm ignores
C39_Optional(c) ==
    /\ c.cmd = "modifyvm"
    /\ c.opt \in {<<"--description">>, <<"--usb off">>, <<"--uart1 off">>, <<"--lpt1 off">>,
                  <<"--audio none">>, <<"--clipboard disabled">>, <<"--draganddrop disabled">>}

\* the step left register_vm
C39_Returned ==
    Len(stack') < Len(stack)

\* C39: register_vm returns the error of the first mandatory step that fails, at once and
\* without a further command: a command, the creation of the floppy image, the allocation of
\* a port; the failure of an optional command neither ends register_vm nor is it returned
C39_FirstFailure ==
    [][/\ (At("register_vm", "step") /\ Len(cmds') = Len(cmds) + 1
            /\ cmds'[Len(cmds')].cmd # "list extpacks") =>
            IF C39_Optional(cmds'[Len(cmds')])
            THEN ~C39_Returned /\ ret' = ret
            ELSE /\ popen'.retval # 0 => (C39_Returned /\ ret' = popen'.retval)
                 /\ (popen'.retval = 0 /\ C39_Returned) => ret' = 0
       /\ (At("register_vm", "step") /\ cmds' = cmds /\ pFloppy' = "not ready"
            /\ Top.step <= Len(register_vm_steps(cfg))
            /\ register_vm_steps(cfg)[Top.step].cmd = "FloppyIO") =>
            (C39_Returned /\ ret' = ERR_FWRITE)
       /\ (At("register_vm", "port") /\ ret # 0) =>
            (C39_Returned /\ ret' = ret /\ cmds' = cmds)
       /\ (C34_Registering /\ stack = <<>> /\ ret # 0) =>
            (cmds' = <<>> \/ cmds' = cmds)]_vars

\* register_vm returned the error of the command that adds the floppy controller
C39_Witness ==
    /\ C34_Registering
    /\ stack = <<>>
    /\ ret # 0
    /\ ret = popen.retval
    /\ cmds[Len(cmds)].cmd = "storagectl --add"
    /\ cmds[Len(cmds)].opt = <<"Floppy Controller">>

\* the commands that take the VM and its media out of the registry
C36_Deregistering ==
    {"unregistervm", "closemedium disk", "closemedium floppy"}

\* C36: a cleanup() of a VM that is running issues controlvm poweroff before any
\* unregistervm or closemedium; the VM is one that a startvm that succeeded has started and
\* whose state the polls since could not read
C36_PoweroffFirst ==
    (history = "startvm" /\ \E i \in 1..Len(cmds) : cmds[i].cmd \in C36_Deregistering) =>
        \E j \in 1..Len(cmds) :
            /\ cmds[j].cmd = "controlvm poweroff"
            /\ \A i \in 1..Len(cmds) : cmds[i].cmd \in C36_Deregistering => j < i

\* C31: through pause(), resume() and poll() the suspended flag follows the VM: pause() sets
\* it when its command succeeded, resume() clears it when its command succeeded, either leaves
\* it alone when the command failed, and a poll that reads "paused" or "running" sets or
\* clears it
C31_SuspendedFollows ==
    [][/\ At("pause", "command") =>
            suspended' = (IF popen'.retval = 0 THEN TRUE ELSE suspended)
       /\ At("resume", "command") =>
            suspended' = (IF popen'.retval = 0 THEN FALSE ELSE suspended)
       /\ At("pause", "entry") \/ At("resume", "entry") =>
            suspended' = suspended
       /\ (At("poll", "entry") /\ note'.parsed /\ note'.vmstate \in {"running", "paused"}) =>
            suspended' = (note'.vmstate = "paused")]_vars

\* the second pause() of pause, resume, pause, each of which succeeded, has returned
C31_Witness ==
    /\ stack = <<>>
    /\ history = "pause, resume"
    /\ note.op = "pause"
    /\ ret = 0
    /\ suspended

\* C35: pause() sets the priority of the VM process to normal and then issues controlvm
\* pause, resume() sets it to idle and then issues controlvm resume; with no process id
\* known neither changes the priority
C35_PriorityFirst ==
    [][/\ At("pause", "entry") =>
            /\ cmds' = cmds
            /\ priority' = (IF vm_pid # 0 THEN "normal" ELSE priority)
       /\ At("pause", "command") =>
            /\ cmds' = Append(cmds, Cmd("controlvm pause", vm_name, <<>>))
            /\ vm_pid # 0 => priority = "normal"
            /\ priority' = priority
       /\ At("resume", "entry") =>
            /\ cmds' = cmds
            /\ priority' = (IF vm_pid # 0 THEN "idle" ELSE priority)
       /\ At("resume", "command") =>
            /\ cmds' = Append(cmds, Cmd("controlvm resume", vm_name, <<>>))
            /\ vm_pid # 0 => priority = "idle"
            /\ priority' = priority]_vars

\* a pause() of a VM whose process is known has returned, after a pause() and a resume()
C35_Witness ==
    /\ stack = <<>>
    /\ note.op = "pause"
    /\ history = "pause, resume"
    /\ vm_pid # 0
    /\ priority = "normal"

\* C37: a poll whose command failed or whose output held no VMState leaves online, suspended
\* and crashed as they were; no poll changes vm_name, network_suspended or a port
C37_PollWritesFlagsOnly ==
    [][At("poll", "entry") =>
        /\ (popen'.retval # 0 \/ ~note'.parsed) =>
                (online' = online /\ suspended' = suspended /\ crashed' = crashed)
        /\ vm_name' = vm_name
        /\ network_suspended' = network_suspended
        /\ pf_host_port' = pf_host_port
        /\ rd_host_port' = rd_host_port]_vars

\* a poll whose command failed has returned, with flags and members that are not those of a
\* new object
C37_Witness ==
    /\ stack = <<>>
    /\ note.op = "poll"
    /\ popen.retval # 0
    /\ online
    /\ suspended
    /\ network_suspended
    /\ pf_host_port # 0
====
